---- MODULE Spec2Model ----
(***************************************************************************)
(* Birdhouse deployment pipeline (pipeline.js): one invocation of           *)
(* "node pipeline [flags]" as a state machine, with the remote SFTP server  *)
(* and the project's files as state.                                        *)
(***************************************************************************)
EXTENDS Integers, Sequences, FiniteSets, TLC

VARIABLES
    argv,           \* the command-line flags given (process.argv without node/script)
    vArg,           \* process.argv[versionFlagIndex + 1]
    pc,             \* position of the invocation in pipeline.js
    exitCode,       \* the code the process ended with (-1 while it runs)
    lock,           \* Birdhouse/pipeline.lock exists
    log,            \* messages printed so far (tags)
    missingKeys,    \* required keys absent from pipeline-config.js / sftp-config.js
    configVersion,  \* "version" in ./config.js
    swVersion,      \* self.CACHE_VERSION in ./service-worker.js
    configSw,       \* version carried by ./config-sw.js ("absent" record if no file)
    cacheList,      \* content of Birdhouse/filesToCache.js
    version,        \* main's local variable version
    filesToCache,   \* main's local variable filesToCache
    filesToUpload,  \* uploadFilesToServer's local filesToUpload
    nextFile,       \* index of the loop in uploadFilesToDirectory
    remote,         \* remote directory trees by path
    conn,           \* state of the SftpClient of the current operation
    tmpDir,         \* local temp directory of copySFTPDirectory
    copy,           \* arguments of the running copySFTPDirectory call
    intervalSet,    \* the implicit global "interval" has been assigned by spinner()
    filesUploaded,  \* main's local variable filesUploaded (-1 for null)
    trace,          \* remote calls made so far, in order
    opsRun,         \* terminal operations entered, in order
    scripts,        \* which script lists were executed ("pre", "post")
    dist,           \* files in the local dist directory
    statsWritten,   \* addStatistics wrote the run summary
    dirFiles,       \* the files of the project on disk
    dirs,           \* the directories of the project on disk
    directoriesToInclude, \* config.directoriesToInclude as pipeline-config.js has it
    ignoredFileTypes,     \* config.ignoredFileTypes
    manifests,      \* the lists getFilesToCache returned so far, in order
    configFile,     \* ./config.js as updateConfig reads it
    pipelineConfigFile, \* ./pipeline-config.js as updatePipelineConfig reads it
    updates,        \* the files before and after every run of the two updates
    isHandlingRouteChange, \* main.js: the flag of handleRouteChange
    calls,          \* the calls of handleRouteChange so far, each with its position
    content,        \* innerHTML of the content element and the call that wrote it
    actions,        \* the call whose actions are registered (0: none)
    oupsHook,       \* what is registered for 'overwrite-oups-content'
    location,       \* window.location.pathname
    pagePath,       \* main.js: the module's variable path
    retryDelay,     \* main.js: retryDelay
    hadError,       \* main.js: hadError
    fetchingUserData, \* main.js: fetchingUserData
    userData,       \* main.js: userData
    waiting,        \* executions of fetchUserData in the loop of line 356
    fetching,       \* executions of fetchUserData between lines 361 and 378
    timers,         \* pending setTimeout(fetchUserData, ...)
    fails,          \* failed fetches since the last successful one
    fetchCalls,     \* calls of fetchUserData from outside so far
    lastDelay,      \* the delay of the last retry scheduled (0: none yet)
    isBuilding,     \* the watcher script: isBuilding
    builds,         \* the pipeline processes the watcher started, each with its phase
    events,         \* the file-change events so far, each with what the handler found
    dbFiles,        \* files of the database directory, in readdir order
    other,          \* phase of another pipeline invocation on the same project
    initial         \* the files as they were before the invocation

vars == <<argv, vArg, pc, exitCode, lock, log, missingKeys, configVersion, swVersion,
          configSw, cacheList, version, filesToCache, filesToUpload, nextFile, remote,
          conn, tmpDir, copy, intervalSet, filesUploaded, trace, opsRun, scripts, dist,
          statsWritten, dirFiles, dirs, directoriesToInclude, ignoredFileTypes,
          manifests, configFile, pipelineConfigFile, updates, dbFiles,
          other, initial, isHandlingRouteChange, calls, content, actions, oupsHook,
          location, pagePath, retryDelay, hadError, fetchingUserData, userData, waiting,
          fetching, timers, fails, fetchCalls, lastDelay, isBuilding, builds, events>>

-----------------------------------------------------------------------------
(* Bounds of the model *)

\* at most this many flags on one command line
MaxArgs == 3
\* version components of the enumerated version strings are 0..MaxPart
MaxPart == 1

-----------------------------------------------------------------------------
(* Command line: pipeline.js 124-143 *)

Flags == {"-init", "-u", "-root", "-r", "-rollback", "-p", "-s", "-l",
          "-d", "-b", "-v", "-h"}

Has(a, f) == f \in a

initializeFlag   == Has(argv, "-init")
updateFlag       == Has(argv, "-u")
updateRootFlag   == Has(argv, "-root") \/ Has(argv, "-r")
productionFlag   == Has(argv, "-p")
stagingFlag      == Has(argv, "-s")
rollbackFlag     == Has(argv, "-rollback") \/ Has(argv, "-r")
backupFlag       == Has(argv, "-b")
deleteFlag       == Has(argv, "-d")
versionFlag      == Has(argv, "-v")
forcedUpdateFlag == Has(argv, "-forced")
silentUpdateFlag == Has(argv, "-silent")
helpFlag         == Has(argv, "-h")
minifyFlag       == Has(argv, "-m")
localFlag        == Has(argv, "-l")

-----------------------------------------------------------------------------
(* Version strings.  A string is kept as the list of its '.'-separated      *)
(* parts; a part is its leading decimal digits d (-1: none) followed by    *)
(* the text r.                                                              *)

Num(n)   == [d |-> n, r |-> ""]
Hole     == [d |-> -1, r |-> ""]
NaNPart  == [d |-> -1, r |-> "NaN"]
Text(s)  == [d |-> -1, r |-> s]

IsDigits(p) == p.d >= 0 /\ p.r = ""

\* /^\d+(\.\d+){0,3}$/.test(v)
MatchesVersionPattern(v) ==
    /\ Len(v) \in 1..4
    /\ \A i \in 1..Len(v) : IsDigits(v[i])

\* (parseInt(part, 10) + 1).toString(), part possibly undefined (a Hole)
IncrementPart(p) == IF p.d >= 0 THEN Num(p.d + 1) ELSE NaNPart

\* versionParts[3] = x on the array, then the array as join('.') shows it
SetIndex3(parts, x) ==
    [i \in 1..(IF Len(parts) < 4 THEN 4 ELSE Len(parts)) |->
        IF i = 4 THEN x ELSE IF i <= Len(parts) THEN parts[i] ELSE Hole]

PartAt3(parts) == IF Len(parts) >= 4 THEN parts[4] ELSE Hole

RECURSIVE PadTo4(_)
PadTo4(parts) == IF Len(parts) < 4 THEN PadTo4(Append(parts, Num(0))) ELSE parts

NoTarget(a) == a.kind \in {"undefined", "flag"}

\* getNewVersion: the result, or "throw"
getNewVersionThrows(currentVersion) ==
    /\ versionFlag
    /\ ~NoTarget(vArg)
    /\ ~MatchesVersionPattern(vArg.text)

getNewVersion(currentVersion) ==
    IF versionFlag
    THEN IF NoTarget(vArg)
         THEN SetIndex3(currentVersion, IncrementPart(PartAt3(currentVersion)))
         ELSE PadTo4(vArg.text)
    ELSE currentVersion

-----------------------------------------------------------------------------
(* Project files.  Paths are strings; what path.basename, path.dirname and  *)
(* the string comparison of Array.prototype.sort() give for them is         *)
(* tabulated.                                                               *)

\* the literal list of getFilesToCache, in the order of the source
FixedFiles == <<"index.html", "sitemap.xml", "robots.txt", "service-worker.js",
                "config-sw.js", "everywhere.js", "config.js", "updateNotes.js",
                "manifest.json", "admin-style.css", "style.css",
                "Birdhouse/default-style.css", "Birdhouse/filesToCache.js",
                "Birdhouse/service-worker-registration.js">>

CacheFileUpload == "./Birdhouse/filesToCache.js"

\* files that may exist under directoriesToInclude and under databaseDir
DirUniverse == {"src/main.js", "src/config.js"}
DbUniverse  == {"database/config.js", "database/setup.php"}

\* every path of the model, files and directories, in the order of its
\* UTF-16 code units
LexOrder == <<"./Birdhouse/filesToCache.js", "Birdhouse",
              "Birdhouse/default-style.css", "Birdhouse/filesToCache.js",
              "Birdhouse/fonts", "Birdhouse/service-worker-registration.js",
              "Birdhouse/src", "admin-style.css", "config-sw.js", "config.js",
              "database", "database/config.js", "database/setup.php", "everywhere.js",
              "fonts", "index.html", "manifest.json", "robots.txt",
              "service-worker.js", "sitemap.xml", "src", "src/.env.js", "src/.git",
              "src/.git/hook.js", "src/a.js", "src/b.md", "src/c.css",
              "src/components", "src/components/example.js", "src/config.js",
              "src/filesToCache.js", "src/main.js", "style.css", "updateNotes.js", "uploads",
              "uploads-public", "uploads-public/pic.png", "uploads/pic.png">>

Range(s) == {s[i] : i \in 1..Len(s)}

Paths == Range(LexOrder)

LexRank(p) == CHOOSE i \in 1..Len(LexOrder) : LexOrder[i] = p

\* path.basename(p)
basename(p) ==
    CASE p \in {"config.js", "src/config.js", "database/config.js"} -> "config.js"
      [] p = "config-sw.js" -> "config-sw.js"
      [] p = "service-worker.js" -> "service-worker.js"
      [] p \in {"Birdhouse/filesToCache.js", "./Birdhouse/filesToCache.js",
                "src/filesToCache.js"} -> "filesToCache.js"
      [] p = "Birdhouse/default-style.css" -> "default-style.css"
      [] p = "Birdhouse/service-worker-registration.js" -> "service-worker-registration.js"
      [] p = "src/main.js" -> "main.js"
      [] p = "src/a.js" -> "a.js"
      [] p = "src/b.md" -> "b.md"
      [] p = "src/c.css" -> "c.css"
      [] p = "src/.env.js" -> ".env.js"
      [] p = "src/.git" -> ".git"
      [] p = "src/.git/hook.js" -> "hook.js"
      [] p = "src/components" -> "components"
      [] p = "src/components/example.js" -> "example.js"
      [] p \in {"uploads/pic.png", "uploads-public/pic.png"} -> "pic.png"
      [] p = "Birdhouse/src" -> "src"
      [] p = "Birdhouse/fonts" -> "fonts"
      [] p = "database/setup.php" -> "setup.php"
      [] OTHER -> p

\* file.replace(/^\.\/|^\//, '')
relativeFilePath(p) == IF p = CacheFileUpload THEN "Birdhouse/filesToCache.js" ELSE p

\* the elements of set S as a list in the order of sort() without comparator
RECURSIVE SortLex(_)
SortLex(S) ==
    IF S = {} THEN <<>>
    ELSE LET m == CHOOSE x \in S : \A y \in S : LexRank(x) <= LexRank(y)
         IN  <<m>> \o SortLex(S \ {m})

\* path.dirname(p)
dirname(p) ==
    CASE p \in {"src/a.js", "src/b.md", "src/c.css", "src/.env.js", "src/.git",
                "src/components", "src/config.js", "src/filesToCache.js",
                "src/main.js"} -> "src"
      [] p = "src/.git/hook.js" -> "src/.git"
      [] p = "src/components/example.js" -> "src/components"
      [] p = "uploads/pic.png" -> "uploads"
      [] p = "uploads-public/pic.png" -> "uploads-public"
      [] p \in {"database/config.js", "database/setup.php"} -> "database"
      [] p \in {"Birdhouse/default-style.css", "Birdhouse/filesToCache.js",
                "Birdhouse/service-worker-registration.js", "Birdhouse/src",
                "Birdhouse/fonts"} -> "Birdhouse"
      [] p = "./Birdhouse/filesToCache.js" -> "./Birdhouse"
      [] OTHER -> "."

\* path.extname(file)
extname(p) ==
    CASE p \in {"src/b.md"} -> ".md"
      [] p \in {"src/c.css", "style.css", "admin-style.css",
                "Birdhouse/default-style.css"} -> ".css"
      [] p \in {"uploads/pic.png", "uploads-public/pic.png"} -> ".png"
      [] p \in {"index.html"} -> ".html"
      [] p \in {"sitemap.xml"} -> ".xml"
      [] p \in {"robots.txt"} -> ".txt"
      [] p \in {"manifest.json"} -> ".json"
      [] p \in {"database/setup.php"} -> ".php"
      [] OTHER -> ".js"

\* file.startsWith('.')
startsWithDot(p) == basename(p) \in {".env.js", ".git"}

\* ignoredFileTypes and directoriesToExcludeFromCache of the default configuration
defaultIgnoredFileTypes == {".zip", ".rar", ".md", ".psd", ".htaccess"}
directoriesToExcludeFromCache == <<"img/screenshots", "uploads">>

\* fsPromises.readdir(directory) where F are the files and D the
\* directories on disk
readdir(directory, F, D) == SortLex({e \in F \cup D : dirname(e) = directory})

\* a walk that ignores no file type
ignoresNothing(file) == FALSE

\* ignoredFileTypes.includes(path.extname(file))
includesFileType(file) == extname(file) \in ignoredFileTypes

\* readFilesFromDirectory(directory, files): the loop over the entries
RECURSIVE readEntries(_, _, _, _)
readEntries(entries, files, F, D) ==
    IF entries = <<>> THEN files
    ELSE LET fullPath == Head(entries)
             next == IF startsWithDot(fullPath) THEN files
                     ELSE IF fullPath \in D
                          THEN readEntries(readdir(fullPath, F, D), files, F, D)
                          ELSE IF includesFileType(fullPath)
                               THEN files
                               ELSE Append(files, fullPath)
         IN  readEntries(Tail(entries), next, F, D)

readFilesFromDirectory(directory, files, F, D) ==
    readEntries(readdir(directory, F, D), files, F, D)

\* for (const dir of directoriesToInclude) readFilesFromDirectory(dir, filesToCache)
RECURSIVE readDirectories(_, _, _, _)
readDirectories(list, files, F, D) ==
    IF list = <<>> THEN files
    ELSE readDirectories(Tail(list), readFilesFromDirectory(Head(list), files, F, D), F, D)

\* a list handed on as it is
sameList(list) == list

\* [...new Set(list)]: the first occurrence of every element, in order
RECURSIVE newSet(_)
newSet(list) ==
    IF list = <<>> THEN <<>>
    ELSE LET front == newSet(SubSeq(list, 1, Len(list) - 1))
             x == list[Len(list)]
         IN  IF x \in Range(front) THEN front ELSE Append(front, x)

\* list.sort(): insertion by the order of the code units; equal strings
\* stay next to each other
RECURSIVE insertByRank(_, _)
insertByRank(sorted, x) ==
    IF sorted = <<>> THEN <<x>>
    ELSE IF LexRank(x) >= LexRank(sorted[Len(sorted)])
         THEN Append(sorted, x)
         ELSE Append(insertByRank(SubSeq(sorted, 1, Len(sorted) - 1), x),
                     sorted[Len(sorted)])

RECURSIVE sortDefault(_)
sortDefault(list) ==
    IF list = <<>> THEN <<>>
    ELSE insertByRank(sortDefault(SubSeq(list, 1, Len(list) - 1)), list[Len(list)])

\* the directories getFilesToCache reads: directoriesToInclude after the two pushes
includedDirectories(include) == include \o <<"Birdhouse/src", "Birdhouse/fonts">>

\* getFilesToCache: the literal list, then every file the walk pushes,
\* as [...new Set(filesToCache)].sort()
getFilesToCache(include, F, D) ==
    sortDefault(newSet(readDirectories(includedDirectories(include), FixedFiles, F, D)))

\* ensureDirectoryExists for every directory read: mkdir(dir, { recursive: true })
ensureDirectoriesExist(include, D) ==
    D \cup UNION {{d, dirname(d)} \ {"."} : d \in Range(includedDirectories(include))}

\* a comparator that leaves every pair as it is
compareUploadUnordered(a, b) == 0

\* the comparator of filesToUpload.sort(...) in uploadFilesToServer
compareUpload(a, b) ==
    IF basename(a) = "service-worker.js" THEN 1
    ELSE IF basename(b) = "service-worker.js" THEN -1
    ELSE IF basename(a) = "config-sw.js" THEN 1
    ELSE IF basename(b) = "config-sw.js" THEN -1
    ELSE IF basename(a) = "config.js" THEN 1
    ELSE IF basename(b) = "config.js" THEN -1
    ELSE 0

\* insert pivot into the sorted list s: it goes behind the last element e
\* with compare(pivot, e) >= 0 (the insertion step of Array.prototype.sort)
RECURSIVE InsertSorted(_, _)
InsertSorted(s, pivot) ==
    IF s = <<>> THEN <<pivot>>
    ELSE IF compareUpload(pivot, s[Len(s)]) >= 0
         THEN Append(s, pivot)
         ELSE Append(InsertSorted(SubSeq(s, 1, Len(s) - 1), pivot), s[Len(s)])

RECURSIVE SortWith(_, _)
SortWith(done, rest) ==
    IF rest = <<>> THEN done
    ELSE SortWith(InsertSorted(done, Head(rest)), Tail(rest))

\* filesToUpload.sort((a, b) => ...)
sortFilesToUpload(list) == SortWith(<<>>, list)

-----------------------------------------------------------------------------
(* Configuration: pipeline.js 96-122, 207-237 *)

productionPath == "my_app_production"
stagingPath    == "my_app_staging"

\* getApplicationPath()
getApplicationPath == IF productionFlag THEN productionPath ELSE stagingPath

\* `${applicationPath}_BACKUP`
backupApplicationPath(applicationPath) == applicationPath \o "_BACKUP"

RemoteDirs == {productionPath, stagingPath,
               backupApplicationPath(productionPath), backupApplicationPath(stagingPath)}

htaccessFile == "UPLOAD-THIS.htaccess"
preReleaseScripts  == <<"scripts/pre-deploy-script.js">>
postReleaseScripts == <<"scripts/post-deploy-script.js">>

\* the sets of missing required keys that a configuration may have
MissingChoices == {{}, {"productionPath"}, {"stagingPath", "sftpPassword"},
                   {"directoriesToInclude"}}

\* CACHE_VERSION of Birdhouse/root/service-worker.js, the copy updateRoot installs
RootSwVersion == <<Num(1), Num(0), Num(0), Num(0)>>

-----------------------------------------------------------------------------
(* The remote server.  A directory tree is whether the directory exists     *)
(* and its files, each a path with the content stored under it.             *)

NoDir == [exists |-> FALSE, files |-> {}]

File(p, c) == [path |-> p, content |-> c]

\* a file written to a tree replaces the file of the same path
PutFile(files, p, c) == {f \in files : f.path # p} \cup {File(p, c)}

\* every file of `from` written over `files`; files only in `files` stay
Overlay(files, from) ==
    {f \in files : \A g \in from : g.path # f.path} \cup from

\* trees a server may hold before the invocation: the deployed release, and
\* the snapshot that an earlier release with -backup took of its predecessor
Deployed == [exists |-> TRUE,
             files |-> {File("index.html", "release 2"),
                        File("service-worker.js", "release 2"),
                        File("src/added.js", "release 2")}]
Snapshot == [exists |-> TRUE,
             files |-> {File("index.html", "release 1"),
                        File("service-worker.js", "release 1")}]

InitialRemotes ==
    {[d \in RemoteDirs |->
        IF d \in {productionPath, stagingPath} THEN app ELSE bak] :
     app \in {NoDir, Deployed}, bak \in {NoDir, Snapshot}}

Call(name, path) == [call |-> name, path |-> path]

-----------------------------------------------------------------------------
(* Initial states *)

ArgSets == {a \in SUBSET Flags : Cardinality(a) <= MaxArgs}

Undefined == [kind |-> "undefined", text |-> <<>>]

\* what may follow -v on the command line: nothing, another flag, or a text
VersionArgs(a) ==
    IF "-v" \notin a THEN {Undefined}
    ELSE {Undefined}
         \cup (IF a # {"-v"} THEN {[kind |-> "flag", text |-> <<>>]} ELSE {})
         \cup {[kind |-> "text", text |-> t] :
                 t \in {<<Num(2), Num(0)>>,
                        <<Text("abc")>>,
                        <<Num(1), Num(0), Num(0), Num(0), Num(1)>>}}

Snapshot0(cv, cl, rem) ==
    [configVersion |-> cv, swVersion |-> cv, configSw |-> cv, cacheList |-> cl,
     remote |-> rem]

InitLocals ==
    /\ exitCode = -1
    /\ log = {}
    /\ missingKeys = {}
    /\ version = <<>>
    /\ filesToCache = <<>>
    /\ filesToUpload = <<>>
    /\ nextFile = 0
    /\ conn = "none"
    /\ tmpDir = {}
    /\ copy = [src |-> "", dest |-> "", ret |-> ""]
    /\ intervalSet = FALSE
    /\ filesUploaded = -1
    /\ trace = <<>>
    /\ opsRun = <<>>
    /\ scripts = {}
    /\ dist = {"index.html"}
    /\ statsWritten = FALSE

InitFiles(cv) ==
    /\ configVersion = cv
    /\ swVersion = cv
    /\ configSw = cv
    /\ cacheList = <<"/index.html">>
    /\ initial = Snapshot0(cv, <<"/index.html">>, remote)

\* { ...defaults, ...existing }
Spread(defaults, existing) ==
    [k \in DOMAIN defaults \cup DOMAIN existing |->
        IF k \in DOMAIN existing THEN existing[k] ELSE defaults[k]]

\* a config file that exists and has the form the update's pattern matches
ConfigText(obj) == [exists |-> TRUE, matches |-> TRUE, obj |-> obj]

\* the record that JSON.stringify(newConfig, null, 2) leaves in the file: a
\* key whose value is a function is left out
jsonStringify(obj) == [k \in {j \in DOMAIN obj : obj[j] # "function"} |-> obj[k]]

\* the record that stringifyObject leaves in the file: `${key}: ${JSON.stringify(value)}`
\* writes a function as undefined
stringifyObject(obj) ==
    [k \in DOMAIN obj |-> IF obj[k] = "function" THEN "undefined" ELSE obj[k]]

\* keys of defaultConfig and of defaultPipelineConfig that the build does not read
defaultConfig == [pageTitle |-> "My Web App", enableInfoBar |-> "false"]
defaultPipelineConfig == [distPath |-> "Birdhouse/dist"]

\* newConfig of updateConfig and updatePipelineConfig for a file that exists
newConfig(defaults, file) ==
    IF file.matches THEN Spread(defaults, file.obj) ELSE defaults

\* updateConfig: the file written
updateConfig(file) ==
    ConfigText(jsonStringify(IF file.exists THEN newConfig(defaultConfig, file)
                             ELSE defaultConfig))

\* updatePipelineConfig: the file written
updatePipelineConfig(file) ==
    ConfigText(stringifyObject(IF file.exists THEN newConfig(defaultPipelineConfig, file)
                               ELSE defaultPipelineConfig))

\* main.js as the browser has evaluated it up to line 521, no call made
InitRouter ==
    /\ isHandlingRouteChange = FALSE
    /\ calls = <<>>
    /\ content = [html |-> "initial", by |-> 0]
    /\ actions = 0
    /\ pagePath = location

\* main.js lines 61 and 351-352, before the call of line 63
InitFetch ==
    /\ retryDelay = 1000
    /\ hadError = FALSE
    /\ fetchingUserData = FALSE
    /\ userData = "null"
    /\ waiting = 0
    /\ fetching = 0
    /\ timers = 0
    /\ fails = 0
    /\ fetchCalls = 0
    /\ lastDelay = 0

\* the watcher script at line 259, before the first call of line 343
InitWatcher ==
    /\ isBuilding = FALSE
    /\ builds = <<>>
    /\ events = <<>>

\* no page of the application is open and no development server runs
InitSite ==
    /\ oupsHook = "none"
    /\ location = "/"
    /\ InitRouter
    /\ InitFetch
    /\ InitWatcher

\* the two configuration files with the defaults and a title the user set
InitConfigFiles ==
    /\ configFile = ConfigText([pageTitle |-> "Shop", enableInfoBar |-> "false"])
    /\ pipelineConfigFile = ConfigText([distPath |-> "Birdhouse/dist"])
    /\ updates = <<>>

\* the directories of a project as -init leaves it, and the default
\* directoriesToInclude cut down to the one directory that has files
InitTree ==
    /\ dirs = {"src", "Birdhouse", "Birdhouse/src", "Birdhouse/fonts", "database"}
    /\ directoriesToInclude = <<"src">>
    /\ ignoredFileTypes = defaultIgnoredFileTypes
    /\ manifests = <<>>
    /\ InitConfigFiles

\* files of the literal list that a project may lack
MayBeMissing == {{}, {"sitemap.xml"}, {"Birdhouse/filesToCache.js"}}

\* a project whose last run left version 1.0.0.1; a lock left behind by a
\* crashed run may or may not be there
InitInvocation ==
    /\ argv \in ArgSets
    /\ vArg \in VersionArgs(argv)
    /\ pc = "start"
    /\ lock \in BOOLEAN
    /\ InitLocals
    /\ remote \in InitialRemotes
    /\ InitFiles(<<Num(1), Num(0), Num(0), Num(1)>>)
    /\ InitTree
    /\ InitSite
    /\ \E gone \in MayBeMissing : dirFiles = (Range(FixedFiles) \cup {"src/main.js"}) \ gone
    /\ dbFiles = <<"database/setup.php">>

\* one invocation, no other pipeline process on the project
Init ==
    /\ InitInvocation
    /\ other = "none"

-----------------------------------------------------------------------------
(* Process start and end: pipeline.js 50-71, 145-199, 1439-1442 *)

inputVars  == <<argv, vArg, directoriesToInclude, ignoredFileTypes, dbFiles, initial,
                other>>
treeVars   == <<dirFiles, dirs, manifests>>
configVars == <<configFile, pipelineConfigFile, updates>>
routeVars  == <<isHandlingRouteChange, calls, content, actions, oupsHook, location, pagePath>>
fetchVars  == <<retryDelay, hadError, fetchingUserData, userData, waiting, fetching,
                timers, fails, fetchCalls, lastDelay>>
watchVars  == <<isBuilding, builds, events>>
siteVars   == <<routeVars, fetchVars, watchVars>>
fileVars   == <<configVersion, swVersion, configSw, cacheList, dist>>
remoteVars == <<remote, conn, tmpDir, copy, trace, intervalSet>>
localVars  == <<version, filesToCache, filesToUpload, nextFile, filesUploaded>>
runVars    == <<opsRun, scripts, statsWritten>>

\* removeLock(); process.exit(0)
exitPipeline ==
    /\ lock' = FALSE
    /\ exitCode' = 0
    /\ pc' = "exited"

\* process.exit(1)
processExit1 ==
    /\ exitCode' = 1
    /\ pc' = "exited"

\* module load with -h or without any argument: help() prints and exits
LoadHelp ==
    /\ pc = "start"
    /\ ~initializeFlag
    /\ helpFlag \/ argv = {}
    /\ log' = log \cup {"usage"}
    /\ exitPipeline
    /\ UNCHANGED <<inputVars, siteVars, configVars, treeVars, fileVars, remoteVars, localVars, runVars, missingKeys>>

\* module load: require('../pipeline-config.js') or the sftp config file fails
LoadConfigError ==
    /\ pc = "start"
    /\ ~initializeFlag
    /\ ~(helpFlag \/ argv = {})
    /\ lock' = FALSE
    /\ log' = log \cup {"Error loading config"}
    /\ processExit1
    /\ UNCHANGED <<inputVars, siteVars, configVars, treeVars, fileVars, remoteVars, localVars, runVars, missingKeys>>

\* module load: removeLock() at line 54, help(), the configuration is read
Load ==
    /\ pc = "start"
    /\ ~(~initializeFlag /\ (helpFlag \/ argv = {}))
    /\ lock' = FALSE
    /\ \E mk \in MissingChoices :
         missingKeys' = IF initializeFlag THEN {}
                        ELSE IF localFlag
                             THEN mk \ {"sftpHost", "sftpPort", "sftpUsername", "sftpPassword"}
                             ELSE mk
    /\ pc' = "main"
    /\ UNCHANGED <<inputVars, siteVars, configVars, treeVars, fileVars, remoteVars, localVars, runVars, exitCode, log>>

\* main().catch(err => console.error(<a function>)).then(() => exitPipeline())
ExitAfterMain ==
    /\ pc \in {"returned", "threw"}
    /\ exitPipeline
    /\ UNCHANGED <<inputVars, siteVars, configVars, treeVars, fileVars, remoteVars, localVars, runVars, missingKeys, log>>

-----------------------------------------------------------------------------
(* main(): pipeline.js 242-421 *)

\* createLock() under the condition of line 245
createLockIfBuilding == lock' = (lock \/ localFlag \/ productionFlag \/ stagingFlag)

\* updateRoot(): every file of Birdhouse/root is copied over the project root,
\* service-worker.js among them
updateRoot == swVersion' = RootSwVersion

\* -init: the lock, initializeProject(), exitPipeline()
MainInitialize ==
    /\ pc = "main"
    /\ initializeFlag
    /\ updateRoot
    /\ log' = log \cup {"Project initialized"}
    /\ exitPipeline
    /\ UNCHANGED <<inputVars, siteVars, configVars, treeVars, configVersion, configSw, cacheList, dist, remoteVars,
                   localVars, runVars, missingKeys>>

\* lines 243-264: the lock is created, the pre release scripts run
MainStart ==
    /\ pc = "main"
    /\ ~initializeFlag
    /\ createLockIfBuilding
    /\ scripts' = IF (productionFlag \/ stagingFlag \/ localFlag) /\ ~deleteFlag
                     /\ ~rollbackFlag /\ Len(preReleaseScripts) > 0
                  THEN scripts \cup {"pre"} ELSE scripts
    /\ pc' = "modes"
    /\ UNCHANGED <<inputVars, siteVars, configVars, treeVars, fileVars, remoteVars, localVars, opsRun, statsWritten,
                   missingKeys, exitCode, log>>

\* -u: updateConfig(), updatePipelineConfig(), exitPipeline()
UpdateMode ==
    /\ pc = "modes"
    /\ updateFlag
    /\ configFile' = updateConfig(configFile)
    /\ pipelineConfigFile' = updatePipelineConfig(pipelineConfigFile)
    /\ updates' = Append(updates,
                      [config   |-> [before |-> configFile, after |-> configFile'],
                       pipeline |-> [before |-> pipelineConfigFile,
                                     after |-> pipelineConfigFile']])
    /\ log' = log \cup {"config.js updated"}
    /\ exitPipeline
    /\ UNCHANGED <<inputVars, siteVars, treeVars, fileVars, remoteVars, localVars, runVars,
                   missingKeys>>

\* -root or -r: updateRoot(), exitPipeline()
RootMode ==
    /\ pc = "modes"
    /\ ~updateFlag
    /\ updateRootFlag
    /\ updateRoot
    /\ log' = log \cup {"Root directory updated"}
    /\ exitPipeline
    /\ UNCHANGED <<inputVars, siteVars, configVars, treeVars, configVersion, configSw, cacheList, dist, remoteVars,
                   localVars, runVars, missingKeys>>

NoModeFlag == ~updateFlag /\ ~updateRootFlag

\* lines 292-310: required configuration is missing
MissingConfiguration ==
    /\ pc = "modes"
    /\ NoModeFlag
    /\ missingKeys # {} /\ ~localFlag
    /\ log' = log \cup {"Error: Missing necessary configuration values"}
    /\ processExit1
    /\ UNCHANGED <<inputVars, siteVars, configVars, treeVars, fileVars, remoteVars, localVars, runVars, missingKeys, lock>>

\* lines 306-321: the configuration is complete; updateRoot() for a build
StartBuild ==
    /\ pc = "modes"
    /\ NoModeFlag
    /\ ~(missingKeys # {} /\ ~localFlag)
    /\ IF productionFlag \/ stagingFlag \/ localFlag
       THEN updateRoot ELSE UNCHANGED swVersion
    /\ pc' = "version"
    /\ UNCHANGED <<inputVars, siteVars, configVars, treeVars, configVersion, configSw, cacheList, dist, remoteVars,
                   localVars, runVars, missingKeys, exitCode, lock, log>>

\* the text of a part without "-f" and "-s"
StripText(r) ==
    CASE r \in {"-f", "-s"} -> ""
      [] r \in {"NaN-f", "NaN-s"} -> "NaN"
      [] OTHER -> r

\* newVersion.replace(/-f|-s/g, '')
StripMarkers(v) == [i \in 1..Len(v) |-> [v[i] EXCEPT !.r = StripText(@)]]

\* `${newVersion}${forcedUpdateFlag ? '-f' : silentUpdateFlag ? '-s' : ''}`
WithMarker(v) ==
    LET m == IF forcedUpdateFlag THEN "-f" ELSE IF silentUpdateFlag THEN "-s" ELSE ""
    IN  IF Len(v) = 0 THEN v ELSE [v EXCEPT ![Len(v)].r = @ \o m]

\* updateVersion: the version written to config.js and service-worker.js
updateVersion(newVersion) == WithMarker(StripMarkers(newVersion))

\* a service-worker.js that has no self.CACHE_VERSION = "..." line
NoVersionLine == <<>>

\* a version step that leaves service-worker.js as it is
keepServiceWorker(data, newVersion) == data

\* updateVersionOnServiceWorker: data.replace(/self.CACHE_VERSION = "(.*?)";/, ...)
\* puts the new version where the line is, and changes nothing without it
updateVersionOnServiceWorker(data, newVersion) ==
    IF data = NoVersionLine THEN data ELSE newVersion

\* lines 323-335 with a target after -v that getNewVersion rejects
VersionRejected ==
    /\ pc = "version"
    /\ getNewVersionThrows(configVersion)
    /\ log' = log \cup {"throw: Invalid version number format"}
    /\ pc' = "threw"
    /\ UNCHANGED <<inputVars, siteVars, configVars, treeVars, fileVars, remoteVars, localVars, runVars, missingKeys,
                   exitCode, lock>>

\* lines 323-335: getCurrentVersion, getNewVersion, updateVersion,
\* updateVersionOnServiceWorker, createConfigForServiceWorker
VersionStep ==
    /\ pc = "version"
    /\ ~getNewVersionThrows(configVersion)
    /\ LET written == updateVersion(getNewVersion(configVersion))
       IN  /\ version' = written
           /\ configVersion' = written
           /\ swVersion' = updateVersionOnServiceWorker(swVersion, written)
           /\ configSw' = written
    /\ pc' = "manifest"
    /\ UNCHANGED <<inputVars, siteVars, configVars, treeVars, cacheList, dist, remoteVars, filesToCache, filesToUpload,
                   nextFile, filesUploaded, runVars, missingKeys, exitCode, lock, log>>

cacheFlag == Has(argv, "-c")

\* file.startsWith(dir) for the directories of directoriesToExcludeFromCache
startsWith(file, dir) ==
    CASE dir = "uploads" -> file \in {"uploads", "uploads/pic.png", "uploads-public",
                                      "uploads-public/pic.png"}
      [] OTHER -> file = dir

\* writeFilesToCacheFile: filesToCache.filter(file =>
\*     !config.directoriesToExcludeFromCache.some(dir => file.startsWith(dir)))
filteredFilesToCache(list) ==
    SelectSeq(list, LAMBDA file :
        ~\E k \in 1..Len(directoriesToExcludeFromCache) :
            startsWith(file, directoriesToExcludeFromCache[k]))

\* the content written to Birdhouse/filesToCache.js: `'/${f}',` for every file
cacheFileContent(list) == [k \in 1..Len(filteredFilesToCache(list)) |->
                              "/" \o filteredFilesToCache(list)[k]]

\* the manifest this run computes at line 337
builtManifest == getFilesToCache(directoriesToInclude, dirFiles, dirs)

\* a cache file kept in a directory that the walk reads
cacheFileInSrc == "src/filesToCache.js"

\* cacheFile, './Birdhouse/filesToCache.js', as the path of the file it names
cacheFilePath == "Birdhouse/filesToCache.js"

\* the files on disk once writeFilesToCacheFile has run
filesAfterCacheWrite ==
    IF cacheFlag THEN dirFiles \cup {cacheFilePath} ELSE dirFiles

\* statSync(file) in writeFilesToCacheFile throws for a file that is not there
statSyncThrows ==
    \E file \in Range(filteredFilesToCache(builtManifest)) :
        file # CacheFileUpload /\ file \notin filesAfterCacheWrite

\* checkFilesExist finds a file that is not there
filesMissing == \E file \in Range(builtManifest) : file \notin filesAfterCacheWrite

\* lines 337-343 never come to an end by an error
neverThrows == FALSE

\* lines 337-343 come to an end by an error
manifestThrows == statSyncThrows \/ filesMissing

\* what lines 337-343 do to the disk and to main's filesToCache
manifestEffects ==
    /\ filesToCache' = builtManifest
    /\ manifests' = Append(manifests, builtManifest)
    /\ dirs' = ensureDirectoriesExist(directoriesToInclude, dirs)
    /\ dirFiles' = filesAfterCacheWrite
    /\ cacheList' = IF cacheFlag THEN cacheFileContent(builtManifest) ELSE cacheList

\* lines 208 and 917: directoriesToInclude is undefined and push throws
IncludeUndefined ==
    /\ pc = "manifest"
    /\ "directoriesToInclude" \in missingKeys
    /\ log' = log \cup {"throw: TypeError: Cannot read properties of undefined"}
    /\ pc' = "threw"
    /\ UNCHANGED <<inputVars, siteVars, configVars, treeVars, fileVars, remoteVars, localVars, runVars,
                   missingKeys, exitCode, lock>>

\* lines 337-343: a file of the manifest is not on disk; statSync in
\* writeFilesToCacheFile throws, or checkFilesExist does
ManifestFileMissing ==
    /\ pc = "manifest"
    /\ "directoriesToInclude" \notin missingKeys
    /\ manifestThrows
    /\ manifestEffects
    /\ log' = log \cup {IF statSyncThrows THEN "throw: ENOENT: no such file or directory"
                        ELSE "throw: One or more files are missing"}
    /\ pc' = "threw"
    /\ UNCHANGED <<inputVars, siteVars, configVars, configVersion, swVersion, configSw, dist, remoteVars,
                   version, filesToUpload, nextFile, filesUploaded, runVars, missingKeys,
                   exitCode, lock>>

\* lines 337-348: getFilesToCache, writeFilesToCacheFile, checkFilesExist, minifyFiles
ManifestStep ==
    /\ pc = "manifest"
    /\ "directoriesToInclude" \notin missingKeys
    /\ ~manifestThrows
    /\ manifestEffects
    /\ log' = log \cup {"All files exist."}
    /\ pc' = "op"
    /\ UNCHANGED <<inputVars, siteVars, configVars, configVersion, swVersion, configSw, dist, remoteVars,
                   version, filesToUpload, nextFile, filesUploaded, runVars, missingKeys,
                   exitCode, lock>>

-----------------------------------------------------------------------------
(* The terminal operation: pipeline.js 350-385 *)

Last(s) == s[Len(s)]
currentOp == IF Len(opsRun) = 0 THEN "none" ELSE Last(opsRun)

\* a rollback condition that does not look at -l
rollbackWithLocal == rollbackFlag

\* the condition of line 351
rollbackOnServer == rollbackFlag /\ ~localFlag

\* rollbackFlag && !localFlag: rollback(applicationPath) is entered
EnterRollback ==
    /\ pc = "op"
    /\ rollbackOnServer
    /\ opsRun' = Append(opsRun, "rollback")
    /\ log' = log \cup {"Rolling back to backup..."}
    /\ pc' = "connect"
    /\ UNCHANGED <<inputVars, siteVars, configVars, treeVars, fileVars, remoteVars, localVars, scripts, statsWritten,
                   missingKeys, exitCode, lock>>

\* deleteFlag && localFlag: clearDirectory(config.distPath)
ClearDist ==
    /\ pc = "op"
    /\ ~rollbackOnServer
    /\ deleteFlag /\ localFlag
    /\ opsRun' = Append(opsRun, "clear dist")
    /\ dist' = {}
    /\ pc' = "post"
    /\ UNCHANGED <<inputVars, siteVars, configVars, treeVars, configVersion, swVersion, configSw, cacheList, remoteVars,
                   localVars, scripts, statsWritten, missingKeys, exitCode, lock, log>>

\* deleteDirectoryFromServer without -p and -s: "Aborting deletion."
DeleteAborted ==
    /\ pc = "op"
    /\ ~rollbackOnServer
    /\ deleteFlag /\ ~localFlag
    /\ ~productionFlag /\ ~stagingFlag
    /\ log' = log \cup {"Aborting deletion."}
    /\ pc' = "post"
    /\ UNCHANGED <<inputVars, siteVars, configVars, treeVars, fileVars, remoteVars, localVars, runVars, missingKeys,
                   exitCode, lock>>

\* the delete branch as an "if" of its own instead of an "else if"
EnterDeleteAsOwnBranch ==
    /\ pc = "op"
    /\ deleteFlag /\ ~localFlag
    /\ productionFlag \/ stagingFlag
    /\ opsRun' = Append(opsRun, "delete")
    /\ pc' = "connect"
    /\ UNCHANGED <<inputVars, siteVars, configVars, treeVars, fileVars, remoteVars, localVars, scripts, statsWritten,
                   missingKeys, exitCode, lock, log>>

\* deleteDirectoryFromServer(applicationPath) is entered
EnterDelete ==
    /\ pc = "op"
    /\ ~rollbackOnServer
    /\ deleteFlag /\ ~localFlag
    /\ productionFlag \/ stagingFlag
    /\ opsRun' = Append(opsRun, "delete")
    /\ pc' = "connect"
    /\ UNCHANGED <<inputVars, siteVars, configVars, treeVars, fileVars, remoteVars, localVars, scripts, statsWritten,
                   missingKeys, exitCode, lock, log>>

\* the files a local build or an upload adds from the database directory:
\* readFilesFromDirectory(databaseDir, list) pushes them in readdir order
withDatabaseFiles(list) == list \o dbFiles

\* -l: compressImages, copyFilesToLocalDirectory(..., true), the .htaccess copy
LocalBuild ==
    /\ pc = "op"
    /\ ~rollbackOnServer
    /\ ~deleteFlag
    /\ localFlag
    /\ opsRun' = Append(opsRun, "build")
    /\ dist' = Range(withDatabaseFiles(filesToCache)) \cup {".htaccess"}
    /\ log' = log \cup {"Build process finished."}
    /\ pc' = "post"
    /\ UNCHANGED <<inputVars, siteVars, configVars, treeVars, configVersion, swVersion, configSw, cacheList, remoteVars,
                   localVars, scripts, statsWritten, missingKeys, exitCode, lock>>

\* uploadFilesToServer without -p and -s returns at once; undefined | 0 is 0
UploadSkipped ==
    /\ pc = "op"
    /\ ~rollbackOnServer
    /\ ~deleteFlag /\ ~localFlag
    /\ ~productionFlag /\ ~stagingFlag
    /\ filesUploaded' = 0
    /\ pc' = "post"
    /\ UNCHANGED <<inputVars, siteVars, configVars, treeVars, fileVars, remoteVars, version, filesToCache, filesToUpload,
                   nextFile, runVars, missingKeys, exitCode, lock, log>>

\* uploadFilesToServer, lines 1004-1023: the list to upload and its order
buildFilesToUpload(list) ==
    sortFilesToUpload(withDatabaseFiles(Append(list, CacheFileUpload)))

\* uploadFilesToServer(filesToCache, applicationPath) is entered
EnterUpload ==
    /\ pc = "op"
    /\ ~rollbackOnServer
    /\ ~deleteFlag /\ ~localFlag
    /\ productionFlag \/ stagingFlag
    /\ opsRun' = Append(opsRun, "release")
    /\ filesToUpload' = buildFilesToUpload(filesToCache)
    /\ pc' = "connect"
    /\ UNCHANGED <<inputVars, siteVars, configVars, treeVars, fileVars, remoteVars, version, filesToCache, nextFile,
                   filesUploaded, scripts, statsWritten, missingKeys, exitCode, lock, log>>

-----------------------------------------------------------------------------
(* Remote steps of uploadFilesToServer, rollback and                        *)
(* deleteDirectoryFromServer: pipeline.js 1028-1244                         *)

applicationPath == getApplicationPath
backupPath      == backupApplicationPath(applicationPath)

\* uploadFiles going to the upload without looking at backupFlag
AfterConnectWithoutBackup ==
    CASE currentOp = "release"  -> "up_mkdirs"
      [] currentOp = "rollback" -> "rb_check"
      [] OTHER                  -> "del_rmdir"

\* where the operation goes on after sftp.connect
AfterConnect ==
    CASE currentOp = "release"  -> IF backupFlag THEN "bk_check" ELSE "up_mkdirs"
      [] currentOp = "rollback" -> "rb_check"
      [] OTHER                  -> "del_rmdir"

\* await sftp.connect(sftpConfig)
Connect ==
    /\ pc = "connect"
    /\ conn' = "open"
    /\ trace' = Append(trace, Call("connect", ""))
    /\ pc' = AfterConnect
    /\ UNCHANGED <<inputVars, siteVars, configVars, treeVars, fileVars, remote, tmpDir, copy, intervalSet, localVars,
                   runVars, missingKeys, exitCode, lock, log>>

\* steps whose remote call, when it fails, throws into the operation's catch
ThrowingSteps == {"connect", "bk_check", "bk_mkdir", "cp_check", "cp_download",
                  "up_mkdirs", "up_files", "rb_check", "del_rmdir"}

\* spinner() has run before the remote call of these steps
SpinnerSteps == {"cp_download", "cp_upload", "del_rmdir", "bk_delete"}

\* a catch block whose error leaves the operation without the finally block
CatchTargetSkippingFinally(spinnerRan) ==
    IF currentOp = "delete" /\ ~spinnerRan THEN "threw" ELSE "end"

\* the catch block of the running operation, then its finally block.
\* deleteDirectoryFromServer's catch reads the global "interval", which only
\* spinner() assigns: before that the catch block itself throws.
CatchTarget(spinnerRan) ==
    IF currentOp = "delete" /\ ~spinnerRan THEN "end_throw" ELSE "end"

\* return 0 in the catch of uploadFilesToServer
CatchResult == IF currentOp = "release" THEN 0 ELSE filesUploaded

\* a remote call fails: the error reaches the catch block of the operation
RemoteFail ==
    /\ pc \in ThrowingSteps
    /\ trace' = Append(trace, Call("failed", pc))
    /\ intervalSet' = (intervalSet \/ pc \in SpinnerSteps)
    /\ log' = log \cup {"Error in " \o currentOp}
    /\ filesUploaded' = CatchResult
    /\ pc' = CatchTarget(intervalSet')
    /\ UNCHANGED <<inputVars, siteVars, configVars, treeVars, fileVars, remote, conn, tmpDir, copy, version, filesToCache,
                   filesToUpload, nextFile, runVars, missingKeys, exitCode, lock>>

\* uploadFiles with -b: sftp.exists(applicationPath), sftp.exists(backupApplicationPath)
BackupCheck ==
    /\ pc = "bk_check"
    /\ trace' = Append(trace, Call("exists", applicationPath))
    /\ pc' = IF ~remote[applicationPath].exists THEN "up_mkdirs"
             ELSE IF remote[backupPath].exists THEN "bk_delete" ELSE "bk_mkdir"
    /\ log' = IF remote[applicationPath].exists THEN log
              ELSE log \cup {"No directory to backup."}
    /\ UNCHANGED <<inputVars, siteVars, configVars, treeVars, fileVars, remote, conn, tmpDir, copy, intervalSet, localVars,
                   runVars, missingKeys, exitCode, lock>>

\* deleteDirectory(sftp, backupApplicationPath): sftp.rmdir(path, true) succeeds
BackupDelete ==
    /\ pc = "bk_delete"
    /\ remote' = [remote EXCEPT ![backupPath] = NoDir]
    /\ intervalSet' = TRUE
    /\ trace' = Append(trace, Call("rmdir", backupPath))
    /\ pc' = "bk_mkdir"
    /\ UNCHANGED <<inputVars, siteVars, configVars, treeVars, fileVars, conn, tmpDir, copy, localVars, runVars,
                   missingKeys, exitCode, lock, log>>

\* deleteDirectory: sftp.rmdir fails after removing some of the files; the
\* catch block of deleteDirectory logs the error and the caller goes on
BackupDeleteFailed ==
    /\ pc = "bk_delete"
    /\ \E kept \in SUBSET remote[backupPath].files :
         remote' = [remote EXCEPT ![backupPath].files = kept]
    /\ intervalSet' = TRUE
    /\ trace' = Append(trace, Call("failed", "bk_delete"))
    /\ log' = log \cup {"Failed to delete"}
    /\ pc' = "bk_mkdir"
    /\ UNCHANGED <<inputVars, siteVars, configVars, treeVars, fileVars, conn, tmpDir, copy, localVars, runVars,
                   missingKeys, exitCode, lock>>

\* sftp.mkdir(backupApplicationPath), then copySFTPDirectory is called
BackupMkdir ==
    /\ pc = "bk_mkdir"
    /\ remote' = [remote EXCEPT ![backupPath].exists = TRUE]
    /\ trace' = Append(trace, Call("mkdir", backupPath))
    /\ copy' = [src |-> applicationPath, dest |-> backupPath, ret |-> "up_mkdirs"]
    /\ pc' = "cp_check"
    /\ UNCHANGED <<inputVars, siteVars, configVars, treeVars, fileVars, conn, tmpDir, intervalSet, localVars, runVars,
                   missingKeys, exitCode, lock, log>>

\* copySFTPDirectory: sftp.exists(src); the local temp directory is emptied
CopyCheck ==
    /\ pc = "cp_check"
    /\ trace' = Append(trace, Call("exists", copy.src))
    /\ IF remote[copy.src].exists
       THEN /\ tmpDir' = {}
            /\ pc' = "cp_download"
            /\ log' = log
       ELSE /\ tmpDir' = tmpDir
            /\ pc' = copy.ret
            /\ log' = log \cup {"Aborting copy operation."}
    /\ UNCHANGED <<inputVars, siteVars, configVars, treeVars, fileVars, remote, conn, copy, intervalSet, localVars,
                   runVars, missingKeys, exitCode, lock>>

\* copySFTPDirectory: spinner(); sftp.downloadDir(src, projectTempDir)
CopyDownload ==
    /\ pc = "cp_download"
    /\ intervalSet' = TRUE
    /\ tmpDir' = remote[copy.src].files
    /\ trace' = Append(trace, Call("downloadDir", copy.src))
    /\ pc' = "cp_upload"
    /\ UNCHANGED <<inputVars, siteVars, configVars, treeVars, fileVars, remote, conn, copy, localVars, runVars,
                   missingKeys, exitCode, lock, log>>

\* copySFTPDirectory: sftp.uploadDir(projectTempDir, dest) writes every
\* downloaded file under dest; what else is under dest stays
CopyUpload ==
    /\ pc = "cp_upload"
    /\ remote' = [remote EXCEPT ![copy.dest] =
                    [exists |-> TRUE, files |-> Overlay(@.files, tmpDir)]]
    /\ trace' = Append(trace, Call("uploadDir", copy.dest))
    /\ log' = log \cup {"Copy completed."}
    /\ pc' = copy.ret
    /\ UNCHANGED <<inputVars, siteVars, configVars, treeVars, fileVars, conn, tmpDir, copy, intervalSet, localVars,
                   runVars, missingKeys, exitCode, lock>>

\* sftp.uploadDir fails after writing some of the files
CopyUploadFailed ==
    /\ pc = "cp_upload"
    /\ \E part \in SUBSET tmpDir :
         /\ part # tmpDir
         /\ remote' = [remote EXCEPT ![copy.dest] =
                         [exists |-> TRUE, files |-> Overlay(@.files, part)]]
    /\ trace' = Append(trace, Call("failed", "cp_upload"))
    /\ log' = log \cup {"Error in " \o currentOp}
    /\ filesUploaded' = CatchResult
    /\ pc' = CatchTarget(TRUE)
    /\ UNCHANGED <<inputVars, siteVars, configVars, treeVars, fileVars, conn, tmpDir, copy, intervalSet, version,
                   filesToCache, filesToUpload, nextFile, runVars, missingKeys, exitCode,
                   lock>>

\* createDirectoriesOnServer: sftp.mkdir(remoteDir, true) for every directory
CreateDirectories ==
    /\ pc = "up_mkdirs"
    /\ remote' = [remote EXCEPT ![applicationPath].exists = TRUE]
    /\ trace' = Append(trace, Call("mkdir", applicationPath))
    /\ nextFile' = 1
    /\ pc' = "up_files"
    /\ UNCHANGED <<inputVars, siteVars, configVars, treeVars, fileVars, conn, tmpDir, copy, intervalSet, version,
                   filesToCache, filesToUpload, filesUploaded, runVars, missingKeys,
                   exitCode, lock, log>>

minifiedDirectory == "Birdhouse/minified"

\* minifyFiles wrote path.join(minifiedDirectory, path.basename(file)): it
\* does so with -m for the .js and .css files of the manifest
minifiedExists(name) ==
    /\ minifyFlag
    /\ \E f \in Range(filesToCache) :
          /\ basename(f) = name
          /\ extname(f) \in {".js", ".css"}

\* the manifest file whose minified content minifiedDirectory/name holds when
\* minifyFiles has run: the loop writes outputPath for every .js and .css
\* file in the order of the manifest, a later file over an earlier one
minifiedFrom(name) ==
    LET written == {i \in 1..Len(filesToCache) :
                       /\ basename(filesToCache[i]) = name
                       /\ extname(filesToCache[i]) \in {".js", ".css"}}
    IN  filesToCache[CHOOSE i \in written : \A j \in written : j <= i]

\* the file whose content prepareFile(file) hands to the upload
contentSource(file) ==
    IF minifiedExists(basename(file)) THEN minifiedFrom(basename(file))
    ELSE relativeFilePath(file)

\* prepareFile(file): the local path whose content is uploaded
prepareFile(file) ==
    LET localFilePath == IF minifiedExists(basename(file))
                         THEN minifiedDirectory \o "/" \o basename(file)
                         ELSE file
    IN  IF file = "index.html" THEN localFilePath \o ".temp" ELSE localFilePath

\* uploadFilesToDirectory: one turn of the loop, sftp.fastPut of the next file
UploadFile ==
    /\ pc = "up_files"
    /\ nextFile <= Len(filesToUpload)
    /\ LET file == filesToUpload[nextFile]
       IN  /\ remote' = [remote EXCEPT ![applicationPath].files =
                           PutFile(@, relativeFilePath(file), prepareFile(file))]
           /\ trace' = Append(trace, Call("fastPut", file))
    /\ nextFile' = nextFile + 1
    /\ UNCHANGED <<inputVars, siteVars, configVars, treeVars, fileVars, conn, tmpDir, copy, intervalSet, version,
                   filesToCache, filesToUpload, filesUploaded, runVars, missingKeys,
                   exitCode, lock, log, pc>>

\* uploadFilesToDirectory after the loop: the .htaccess file; uploadFiles
\* returns and uploadFilesToServer will return filesToUpload.length
UploadHtaccess ==
    /\ pc = "up_files"
    /\ nextFile > Len(filesToUpload)
    /\ remote' = [remote EXCEPT ![applicationPath].files =
                    PutFile(@, ".htaccess", htaccessFile)]
    /\ trace' = Append(trace, Call("fastPut", htaccessFile))
    /\ filesUploaded' = Len(filesToUpload)
    /\ log' = log \cup {"Files successfully uploaded."}
    /\ pc' = "end"
    /\ UNCHANGED <<inputVars, siteVars, configVars, treeVars, fileVars, conn, tmpDir, copy, intervalSet, version,
                   filesToCache, filesToUpload, nextFile, runVars, missingKeys, exitCode,
                   lock>>

\* rollback: sftp.exists(backupApplicationPath)
RollbackCheck ==
    /\ pc = "rb_check"
    /\ trace' = Append(trace, Call("exists", backupPath))
    /\ IF remote[backupPath].exists
       THEN /\ copy' = [src |-> backupPath, dest |-> applicationPath, ret |-> "end"]
            /\ pc' = "cp_check"
            /\ log' = log
       ELSE /\ copy' = copy
            /\ pc' = "end"
            /\ log' = log \cup {"No backup version found for rollback."}
    /\ UNCHANGED <<inputVars, siteVars, configVars, treeVars, fileVars, remote, conn, tmpDir, intervalSet, localVars,
                   runVars, missingKeys, exitCode, lock>>

\* deleteDirectoryFromServer: spinner(); sftp.rmdir(applicationPath, true)
DeleteRmdir ==
    /\ pc = "del_rmdir"
    /\ remote[applicationPath].exists
    /\ intervalSet' = TRUE
    /\ remote' = [remote EXCEPT ![applicationPath] = NoDir]
    /\ trace' = Append(trace, Call("rmdir", applicationPath))
    /\ log' = log \cup {"Directory successfully deleted."}
    /\ pc' = "end"
    /\ UNCHANGED <<inputVars, siteVars, configVars, treeVars, fileVars, conn, tmpDir, copy, localVars, runVars,
                   missingKeys, exitCode, lock>>

\* what the operation prints after its finally block
ClosingMessage ==
    CASE currentOp = "rollback" -> {"Rollback complete."}
      [] currentOp = "delete" /\ pc = "end" -> {"Deletion complete."}
      [] currentOp = "release" /\ filesUploaded > 0 -> {"Upload complete."}
      [] OTHER -> {}

\* the finally block: sftp.end(); the operation returns to main, or the
\* error thrown by the catch block goes on into main
End ==
    /\ pc \in {"end", "end_throw"}
    /\ conn' = "ended"
    /\ trace' = Append(trace, Call("end", ""))
    /\ log' = log \cup ClosingMessage
    /\ pc' = IF pc = "end_throw" THEN "threw" ELSE "post"
    /\ UNCHANGED <<inputVars, siteVars, configVars, treeVars, fileVars, remote, tmpDir, copy, intervalSet, localVars,
                   runVars, missingKeys, exitCode, lock>>

-----------------------------------------------------------------------------
(* After the operation: pipeline.js 387-421 *)

disableStatisticsFlag == Has(argv, "-nl")

ReleaseSucceeded ==
    /\ productionFlag \/ stagingFlag \/ localFlag
    /\ ~deleteFlag /\ ~rollbackFlag
    /\ filesUploaded > 0 \/ localFlag

\* lines 387-420: the closing message, the post release scripts, addStatistics
Finish ==
    /\ pc = "post"
    /\ log' = log \cup {IF ReleaseSucceeded THEN "completed successfully." ELSE "Done."}
    /\ scripts' = IF ReleaseSucceeded /\ (productionFlag \/ stagingFlag)
                     /\ Len(postReleaseScripts) > 0
                  THEN scripts \cup {"post"} ELSE scripts
    /\ statsWritten' = ~disableStatisticsFlag
    /\ pc' = "returned"
    /\ UNCHANGED <<inputVars, siteVars, configVars, treeVars, fileVars, remoteVars, localVars, opsRun, missingKeys,
                   exitCode, lock>>

-----------------------------------------------------------------------------
(* The invocation *)

Next ==
    \/ LoadHelp \/ LoadConfigError \/ Load
    \/ MainInitialize \/ MainStart \/ UpdateMode \/ RootMode
    \/ MissingConfiguration \/ StartBuild
    \/ VersionRejected \/ VersionStep
    \/ IncludeUndefined \/ ManifestFileMissing \/ ManifestStep
    \/ EnterRollback \/ ClearDist \/ DeleteAborted \/ EnterDelete
    \/ LocalBuild \/ UploadSkipped \/ EnterUpload
    \/ Connect \/ RemoteFail
    \/ BackupCheck \/ BackupDelete \/ BackupDeleteFailed \/ BackupMkdir
    \/ CopyCheck \/ CopyDownload \/ CopyUpload \/ CopyUploadFailed
    \/ CreateDirectories \/ UploadFile \/ UploadHtaccess
    \/ RollbackCheck \/ DeleteRmdir \/ End
    \/ Finish \/ ExitAfterMain

Spec == Init /\ [][Next]_vars

-----------------------------------------------------------------------------
(* A release upload on its own: uploadFilesToServer from its call in main,  *)
(* for every set of files found in the directories and every readdir order  *)
(* of the database directory.                                               *)

UploadArgs == {{"-p"}, {"-s"}, {"-p", "-b"}, {"-s", "-b"}, {"-p", "-m"}}

\* the lists without repetition over the set S
RECURSIVE Orders(_)
Orders(S) ==
    {<<>>} \cup UNION {{<<x>> \o o : o \in Orders(S \ {x})} : x \in S}

\* main at line 350 of a run with -p or -s, without -v, -c, -d and -rollback
InitUpload ==
    /\ InitSite
    /\ argv \in UploadArgs
    /\ vArg = Undefined
    /\ pc = "op"
    /\ lock = TRUE
    /\ exitCode = -1
    /\ log = {"All files exist."}
    /\ missingKeys = {}
    /\ \E found \in SUBSET DirUniverse : dirFiles = Range(FixedFiles) \cup found
    /\ dirs = {"src", "Birdhouse", "Birdhouse/src", "Birdhouse/fonts", "database"}
    /\ directoriesToInclude = <<"src">>
    /\ ignoredFileTypes = defaultIgnoredFileTypes
    /\ InitConfigFiles
    /\ dbFiles \in Orders(DbUniverse)
    /\ version = <<Num(1), Num(0), Num(0), Num(1)>>
    /\ filesToCache = getFilesToCache(directoriesToInclude, dirFiles, dirs)
    /\ manifests = <<filesToCache>>
    /\ filesToUpload = <<>>
    /\ nextFile = 0
    /\ conn = "none"
    /\ tmpDir = {}
    /\ copy = [src |-> "", dest |-> "", ret |-> ""]
    /\ intervalSet = FALSE
    /\ filesUploaded = -1
    /\ trace = <<>>
    /\ opsRun = <<>>
    /\ scripts = {"pre"}
    /\ dist = {"index.html"}
    /\ statsWritten = FALSE
    /\ remote \in InitialRemotes
    /\ InitFiles(<<Num(1), Num(0), Num(0), Num(1)>>)
    /\ other = "none"

NextUpload ==
    \/ EnterUpload \/ Connect \/ RemoteFail
    \/ BackupCheck \/ BackupDelete \/ BackupDeleteFailed \/ BackupMkdir
    \/ CopyCheck \/ CopyDownload \/ CopyUpload \/ CopyUploadFailed
    \/ CreateDirectories \/ UploadFile \/ UploadHtaccess
    \/ End \/ Finish \/ ExitAfterMain

SpecUpload == InitUpload /\ [][NextUpload]_vars

-----------------------------------------------------------------------------
(* The version step on its own: getCurrentVersion, getNewVersion and        *)
(* updateVersion for every version that config.js may carry.                *)

RECURSIVE VersionsOfLength(_)
VersionsOfLength(n) ==
    IF n = 0 THEN {<<>>}
    ELSE {Append(v, Num(k)) : v \in VersionsOfLength(n - 1), k \in 0..MaxPart}

\* "version" of config.js: one to four numeric components
CurrentVersions == UNION {VersionsOfLength(n) : n \in 1..4}

\* the version with the marker m as an earlier run appended it
Marked(v, m) == [v EXCEPT ![Len(v)].r = m]

\* what an earlier run may have left in config.js
StoredVersions == {Marked(v, m) : v \in CurrentVersions, m \in {"", "-f", "-s"}}

VersionRunArgs == {{"-v"}, {"-v", "-forced"}, {"-v", "-silent"},
                   {"-v", "-forced", "-silent"}, {"-c"}, {"-c", "-forced"},
                   {"-c", "-silent"}}

\* main at line 323 of a run without -p, -s and -l
InitVersion ==
    /\ InitSite
    /\ argv \in VersionRunArgs
    /\ vArg \in VersionArgs(argv)
    /\ pc = "version"
    /\ lock = FALSE
    /\ InitLocals
    /\ remote = [d \in RemoteDirs |-> NoDir]
    /\ \E cv \in StoredVersions : InitFiles(cv)
    /\ InitTree
    /\ dirFiles = Range(FixedFiles) \cup {"src/main.js"}
    /\ dbFiles = <<"database/setup.php">>
    /\ other = "none"

NextVersion == VersionStep \/ VersionRejected

SpecVersion == InitVersion /\ [][NextVersion]_vars

-----------------------------------------------------------------------------
(* The manifest step on its own, for every content of the directories and  *)
(* several values of directoriesToInclude; a second run follows the first  *)
(* on the tree as the first left it.                                        *)

\* files that the directories of a project may hold
WalkUniverse == {"src/a.js", "src/b.md", "src/c.css", "src/.env.js", "src/.git/hook.js",
                 "src/components/example.js", "uploads/pic.png",
                 "uploads-public/pic.png"}

\* values of config.directoriesToInclude: one directory, a directory twice,
\* a directory and one below it, directories that share a prefix, a
\* directory that is not there
IncludeChoices == {<<"src">>, <<"src", "src">>, <<"src", "src/components">>,
                   <<"src/components", "uploads", "src", "uploads-public">>,
                   <<"fonts", "src">>}

\* values of config.ignoredFileTypes: the default, and one that also names
\* the extension of a file of the literal list
IgnoreChoices == {defaultIgnoredFileTypes, {".md", ".txt"}}

\* the directories that hold the files F
DirsOf(F) == UNION {{dirname(f), dirname(dirname(f))} \ {"."} : f \in F}

ManifestArgs == {{"-l"}, {"-l", "-c"}}

\* main at line 337 of a local build
InitManifest ==
    /\ InitSite
    /\ argv \in ManifestArgs
    /\ vArg = Undefined
    /\ pc = "manifest"
    /\ lock = TRUE
    /\ exitCode = -1
    /\ log = {}
    /\ missingKeys = {}
    /\ version = <<Num(1), Num(0), Num(0), Num(1)>>
    /\ filesToCache = <<>>
    /\ filesToUpload = <<>>
    /\ nextFile = 0
    /\ conn = "none"
    /\ tmpDir = {}
    /\ copy = [src |-> "", dest |-> "", ret |-> ""]
    /\ intervalSet = FALSE
    /\ filesUploaded = -1
    /\ trace = <<>>
    /\ opsRun = <<>>
    /\ scripts = {"pre"}
    /\ dist = {"index.html"}
    /\ statsWritten = FALSE
    /\ remote = [d \in RemoteDirs |-> NoDir]
    /\ InitFiles(<<Num(1), Num(0), Num(0), Num(1)>>)
    /\ \E found \in SUBSET WalkUniverse : dirFiles = Range(FixedFiles) \cup found
    /\ dirs = DirsOf(dirFiles)
    /\ directoriesToInclude \in IncludeChoices
    /\ ignoredFileTypes \in IgnoreChoices
    /\ InitConfigFiles
    /\ manifests = <<>>
    /\ dbFiles = <<"database/setup.php">>
    /\ other = "none"

\* the build has gone on to its end and "node pipeline" is started again
\* with the same flags: its main comes to line 337
RunAgain ==
    /\ pc = "op"
    /\ Len(manifests) < 2
    /\ pc' = "manifest"
    /\ filesToCache' = <<>>
    /\ log' = {}
    /\ UNCHANGED <<inputVars, siteVars, configVars, treeVars, fileVars, remoteVars, version, filesToUpload,
                   nextFile, filesUploaded, runVars, missingKeys, exitCode, lock>>

NextManifest == ManifestStep \/ RunAgain

SpecManifest == InitManifest /\ [][NextManifest]_vars

-----------------------------------------------------------------------------
(* The update of the two configuration files (-u) on its own, for every    *)
(* content the files may have, run twice.                                   *)

\* values a user may have given to a key: a string, and a function
UserValues == {"Shop", "function"}

\* the records over some of the keys K with user values
RecordsOver(K) == UNION {[S -> UserValues] : S \in SUBSET K}

\* a file that does not exist, one whose text the pattern of the update
\* matches ("export default {...};") and one whose text it does not match
\* (the same without the semicolon)
FilesOver(K) ==
    {[exists |-> FALSE, matches |-> FALSE, obj |-> <<>>]} \cup
    {[exists |-> TRUE, matches |-> m, obj |-> o] : m \in BOOLEAN, o \in RecordsOver(K)}

ConfigKeys == {"pageTitle", "enableInfoBar", "customKey"}
PipelineConfigKeys == {"distPath", "customKey"}

\* main at line 266 of "node pipeline -u"
InitConfig ==
    /\ InitSite
    /\ argv = {"-u"}
    /\ vArg = Undefined
    /\ pc = "modes"
    /\ lock = FALSE
    /\ InitLocals
    /\ remote = [d \in RemoteDirs |-> NoDir]
    /\ InitFiles(<<Num(1), Num(0), Num(0), Num(1)>>)
    /\ dirs = {"src", "Birdhouse", "Birdhouse/src", "Birdhouse/fonts", "database"}
    /\ directoriesToInclude = <<"src">>
    /\ ignoredFileTypes = defaultIgnoredFileTypes
    /\ manifests = <<>>
    /\ dirFiles = Range(FixedFiles) \cup {"src/main.js"}
    /\ dbFiles = <<"database/setup.php">>
    /\ configFile \in FilesOver(ConfigKeys)
    /\ pipelineConfigFile \in FilesOver(PipelineConfigKeys)
    /\ updates = <<>>
    /\ other = "none"

\* "node pipeline -u" is started again and its main comes to line 266
UpdateAgain ==
    /\ pc = "exited"
    /\ Len(updates) < 2
    /\ pc' = "modes"
    /\ exitCode' = -1
    /\ log' = {}
    /\ UNCHANGED <<inputVars, siteVars, configVars, treeVars, fileVars, remoteVars, localVars, runVars,
                   missingKeys, lock>>

NextConfig == UpdateMode \/ UpdateAgain

SpecConfig == InitConfig /\ [][NextConfig]_vars

-----------------------------------------------------------------------------
(* Two invocations on one project.  Of the other "node pipeline -p" only   *)
(* what it does to Birdhouse/pipeline.lock is kept.                         *)

ownVars == <<argv, vArg, pc, exitCode, log, missingKeys, directoriesToInclude,
             ignoredFileTypes, dbFiles, initial, siteVars, treeVars, configVars, fileVars,
             remoteVars, localVars, runVars>>

\* the other process loads pipeline.js: removeLock() at line 54
OtherLoad ==
    /\ other = "idle"
    /\ lock' = FALSE
    /\ other' = "loaded"
    /\ UNCHANGED ownVars

\* the other process in main, lines 245-247: createLock()
OtherCreateLock ==
    /\ other = "loaded"
    /\ lock' = TRUE
    /\ other' = "building"
    /\ UNCHANGED ownVars

\* the other process ends its build: exitPipeline()
OtherExit ==
    /\ other = "building"
    /\ lock' = FALSE
    /\ other' = "ended"
    /\ UNCHANGED ownVars

InitLock ==
    /\ InitInvocation
    /\ other = "idle"

NextLock == Next \/ OtherLoad \/ OtherCreateLock \/ OtherExit

SpecLock == InitLock /\ [][NextLock]_vars

-----------------------------------------------------------------------------
(* The router of the client: handleRouteChange of src/main.js with its      *)
(* callers, and window.triggerHook.  An execution is followed from one      *)
(* await to the next.                                                       *)

\* at most this many calls of handleRouteChange during one page visit
MaxCalls == 3

\* no pipeline invocation has been started on the project
PipelineAtRest ==
    /\ argv = {}
    /\ vArg = Undefined
    /\ pc = "start"
    /\ InitLocals
    /\ remote = [d \in RemoteDirs |-> NoDir]
    /\ InitFiles(<<Num(1), Num(0), Num(0), Num(1)>>)
    /\ InitTree
    /\ dirFiles = Range(FixedFiles) \cup {"src/main.js"}
    /\ dbFiles = <<"database/setup.php">>

\* "/" has a route whose component renders, the component of "/broken"
\* throws, "/nowhere" has no route and no "*" route exists
Locations == {"/", "/broken", "/nowhere"}

\* for 'overwrite-oups-content' there is no callback, one that returns
\* markup, one that returns null or one that throws
OupsHooks == {"none", "markup", "null", "throws"}

\* window.triggerHook with at most one callback registered: null when there
\* is none, the result of the callback, and the empty list of results when
\* the callback threw
triggerHook(hook) ==
    CASE hook = "none"   -> "null"
      [] hook = "markup" -> "<custom>"
      [] hook = "null"   -> "null"
      [] hook = "throws" -> "[]"

\* line 621, oupsContent == null || overwrittenOupsContent == '': the right
\* operand reads a name declared nowhere, which throws a ReferenceError
oupsConditionThrows(oupsContent) == oupsContent # "null"

\* a guard that lets every call through
noGuard(flag) == FALSE

\* the condition of line 536
alreadyHandling(flag) == flag

\* the awaits at which an execution can stand
Awaits == {"on-handle-route-change", "get-loading-content", "routing",
           "overwrite-oups-content", "component", "on-content-loaded",
           "on-actions-setup"}

InProgress == {i \in 1..Len(calls) : calls[i].at \in Awaits}

\* findRoute(path) and the fallback of lines 609-611
hasComponent(p) == p # "/nowhere"

\* lines 535-543 for the call numbered Len(calls) + 1
handleRouteChange(by) ==
    LET i == Len(calls) + 1
        busy == InProgress # {}
    IN IF alreadyHandling(isHandlingRouteChange)
       THEN /\ calls' = Append(calls, [by |-> by, busy |-> busy, at |-> "ignored"])
            /\ UNCHANGED <<isHandlingRouteChange, actions>>
       ELSE /\ isHandlingRouteChange' = TRUE
            /\ actions' = 0
            /\ calls' = Append(calls, [by |-> by, busy |-> busy,
                                       at |-> "on-handle-route-change"])

\* line 797: the call at page load
PageLoad ==
    /\ calls = <<>>
    /\ handleRouteChange("load")
    /\ UNCHANGED <<content, oupsHook, location, pagePath>>
    /\ UNCHANGED <<inputVars, fetchVars, watchVars, configVars, treeVars, fileVars,
                   remoteVars, localVars, runVars, pc, exitCode, log, missingKeys, lock>>

\* line 800: the browser goes back or forward to another entry
PopState ==
    /\ calls # <<>>
    /\ Len(calls) < MaxCalls
    /\ location' \in Locations
    /\ handleRouteChange("popstate")
    /\ UNCHANGED <<content, oupsHook, pagePath>>
    /\ UNCHANGED <<inputVars, fetchVars, watchVars, configVars, treeVars, fileVars,
                   remoteVars, localVars, runVars, pc, exitCode, log, missingKeys, lock>>

\* lines 1195-1201: history.pushState, then handleRouteChange()
goToRoute ==
    /\ calls # <<>>
    /\ Len(calls) < MaxCalls
    /\ location' \in Locations
    /\ handleRouteChange("goToRoute")
    /\ UNCHANGED <<content, oupsHook, pagePath>>
    /\ UNCHANGED <<inputVars, fetchVars, watchVars, configVars, treeVars, fileVars,
                   remoteVars, localVars, runVars, pc, exitCode, log, missingKeys, lock>>

At(i, a) == calls' = [calls EXCEPT ![i].at = a]

\* lines 543-667: the execution of call i goes on from the await it stands
\* at to the next one, to its end or to the throw that ends it
RouteStep(i) ==
    /\ i \in InProgress
    /\ CASE calls[i].at = "on-handle-route-change" ->
              /\ At(i, "get-loading-content")
              /\ UNCHANGED <<isHandlingRouteChange, content, actions, pagePath>>
         [] calls[i].at = "get-loading-content" ->
              /\ content' = [html |-> "loading", by |-> i]
              /\ pagePath' = location
              /\ At(i, "routing")
              /\ UNCHANGED <<isHandlingRouteChange, actions>>
         [] calls[i].at = "routing" ->
              /\ At(i, "overwrite-oups-content")
              /\ UNCHANGED <<isHandlingRouteChange, content, actions, pagePath>>
         [] calls[i].at = "overwrite-oups-content" ->
              IF oupsConditionThrows(triggerHook(oupsHook))
              THEN /\ At(i, "threw")
                   /\ UNCHANGED <<isHandlingRouteChange, content, actions, pagePath>>
              ELSE IF ~hasComponent(pagePath)
              THEN /\ content' = [html |-> "oups", by |-> i]
                   /\ At(i, "on-content-loaded")
                   /\ UNCHANGED <<isHandlingRouteChange, actions, pagePath>>
              ELSE /\ At(i, "component")
                   /\ UNCHANGED <<isHandlingRouteChange, content, actions, pagePath>>
         [] calls[i].at = "component" ->
              /\ content' = [html |-> IF pagePath = "/broken" THEN "oups" ELSE "page",
                             by |-> i]
              /\ At(i, "on-content-loaded")
              /\ UNCHANGED <<isHandlingRouteChange, actions, pagePath>>
         [] calls[i].at = "on-content-loaded" ->
              /\ actions' = i
              /\ At(i, "on-actions-setup")
              /\ UNCHANGED <<isHandlingRouteChange, content, pagePath>>
         [] calls[i].at = "on-actions-setup" ->
              /\ isHandlingRouteChange' = FALSE
              /\ At(i, "done")
              /\ UNCHANGED <<content, actions, pagePath>>
    /\ UNCHANGED <<oupsHook, location>>
    /\ UNCHANGED <<inputVars, fetchVars, watchVars, configVars, treeVars, fileVars,
                   remoteVars, localVars, runVars, pc, exitCode, log, missingKeys, lock>>

\* the execution that is in progress goes on
RouteGoesOn == \E i \in 1..MaxCalls : RouteStep(i)

\* a page of some application is about to be loaded
InitRoute ==
    /\ PipelineAtRest
    /\ lock = FALSE
    /\ other = "none"
    /\ oupsHook \in OupsHooks
    /\ location \in Locations
    /\ InitRouter
    /\ InitFetch
    /\ InitWatcher

NextRoute == PageLoad \/ PopState \/ goToRoute \/ RouteGoesOn

SpecRoute == InitRoute /\ [][NextRoute]_vars

\* every awaited promise of an execution settles, so the execution goes on
SpecRouteLive == SpecRoute /\ WF_vars(RouteGoesOn)

-----------------------------------------------------------------------------
(* The user data of the client: fetchUserData of src/main.js 351-382 with   *)
(* its callers, for an application with config.userLoginEnabled             *)

\* at most this many failed fetches in a row
MaxFails == 13
\* at most this many calls of fetchUserData from lines 63, 401 and 415
MaxFetchCalls == 3

Min(a, b) == IF a < b THEN a ELSE b

\* doubling without the cap
doubledDelay(delay) == delay * 2

\* line 371: Math.min(retryDelay * 2, 3600000)
nextRetryDelay(delay) == Min(delay * 2, 3600000)

otherThanFetch == <<inputVars, routeVars, watchVars, configVars, treeVars, fileVars,
                    remoteVars, localVars, runVars, pc, exitCode, log, missingKeys, lock>>

\* lines 360-362 for an execution that has left the loop of line 356
afterWaitLoop ==
    IF userData = "null"
    THEN /\ fetchingUserData' = TRUE
         /\ fetching' = fetching + 1
    ELSE UNCHANGED <<fetchingUserData, fetching>>

\* lines 354-362 for a new execution: it returns, enters the loop of line
\* 356 or passes it
fetchUserData ==
    IF userData # "null"
    THEN UNCHANGED <<fetchingUserData, fetching, waiting>>
    ELSE IF fetchingUserData
    THEN /\ waiting' = waiting + 1
         /\ UNCHANGED <<fetchingUserData, fetching>>
    ELSE /\ afterWaitLoop
         /\ UNCHANGED waiting

\* lines 63, 401, 415: a call from outside
FetchCall ==
    /\ fetchCalls < MaxFetchCalls
    /\ fetchCalls' = fetchCalls + 1
    /\ fetchUserData
    /\ UNCHANGED <<retryDelay, hadError, userData, timers, fails, lastDelay>>
    /\ UNCHANGED otherThanFetch

\* the timer of line 372 fires
RetryFires ==
    /\ timers > 0
    /\ timers' = timers - 1
    /\ fetchUserData
    /\ UNCHANGED <<retryDelay, hadError, userData, fails, fetchCalls, lastDelay>>
    /\ UNCHANGED otherThanFetch

\* lines 356-358: the 50 ms timer of a waiting execution fires and it finds
\* fetchingUserData false
WaitEnds ==
    /\ waiting > 0
    /\ ~fetchingUserData
    /\ waiting' = waiting - 1
    /\ afterWaitLoop
    /\ UNCHANGED <<retryDelay, hadError, userData, timers, fails, fetchCalls, lastDelay>>
    /\ UNCHANGED otherThanFetch

\* lines 363-368 and 374-378: the hook gives a response whose json() gives
\* the user data or null; location.reload() loads the page anew, which
\* evaluates lines 61 and 351-352 again
FetchSucceeds ==
    /\ fetching > 0
    /\ \E data \in {"loaded", "null"} :
         IF hadError
         THEN /\ retryDelay' = 1000
              /\ hadError' = FALSE
              /\ fetchingUserData' = FALSE
              /\ userData' = "null"
              /\ waiting' = 0
              /\ fetching' = 0
              /\ timers' = 0
              /\ fails' = 0
              /\ lastDelay' = 0
         ELSE /\ userData' = data
              /\ retryDelay' = 1000
              /\ fails' = 0
              /\ fetchingUserData' = FALSE
              /\ fetching' = fetching - 1
              /\ UNCHANGED <<hadError, waiting, timers, lastDelay>>
    /\ UNCHANGED fetchCalls
    /\ UNCHANGED otherThanFetch

\* lines 369-378: the hook or response.json() throws
FetchFails ==
    /\ fetching > 0
    /\ fails < MaxFails
    /\ retryDelay' = nextRetryDelay(retryDelay)
    /\ lastDelay' = retryDelay'
    /\ timers' = timers + 1
    /\ hadError' = TRUE
    /\ fails' = fails + 1
    /\ fetchingUserData' = FALSE
    /\ fetching' = fetching - 1
    /\ UNCHANGED <<userData, waiting, fetchCalls>>
    /\ UNCHANGED otherThanFetch

\* a page of an application with user login is about to call line 63
InitUser ==
    /\ PipelineAtRest
    /\ lock = FALSE
    /\ other = "none"
    /\ InitSite

NextUser == FetchCall \/ RetryFires \/ WaitEnds \/ FetchSucceeds \/ FetchFails

SpecUser == InitUser /\ [][NextUser]_vars

-----------------------------------------------------------------------------
(* The development watcher: runPipelineAndRestartServer of the watcher      *)
(* script, and the pipeline processes it starts.  Of a pipeline process     *)
(* only its life and what it does to Birdhouse/pipeline.lock are kept.      *)

\* at most this many file-change events, the call of line 343 included
MaxEvents == 3

\* a handler that looks at the lock file only
lockOnly(lockExists, building) == lockExists

\* lines 282-288: the two early returns of the handler
watcherSkips(lockExists, building) == lockExists \/ building

\* the pipeline processes that have not exited
Alive == {i \in 1..Len(builds) : builds[i] \in {"spawned", "loaded", "building"}}

otherThanWatch == <<argv, vArg, pc, exitCode, log, missingKeys, directoriesToInclude,
                    ignoredFileTypes, dbFiles, initial, routeVars, fetchVars, treeVars,
                    configVars, fileVars, remoteVars, localVars, runVars, other>>

\* lines 281-314 and 340-343: chokidar reports a change or an added file,
\* or line 343 calls the handler
FileChange ==
    /\ Len(events) < MaxEvents
    /\ LET skip == watcherSkips(lock, isBuilding)
       IN /\ events' = Append(events, [lock |-> lock, running |-> Alive # {},
                                       started |-> ~skip])
          /\ IF skip
             THEN UNCHANGED <<isBuilding, builds>>
             ELSE /\ isBuilding' = TRUE
                  /\ builds' = Append(builds, "spawned")
    /\ UNCHANGED lock
    /\ UNCHANGED otherThanWatch

\* pipeline.js 50-54 and 145-199: the process loads pipeline.js, which
\* removes the lock file, and exits with code 1 when a configuration
\* cannot be loaded
ChildLoads(i) ==
    /\ i \in 1..Len(builds)
    /\ builds[i] = "spawned"
    /\ lock' = FALSE
    /\ \E loaded \in BOOLEAN :
         builds' = [builds EXCEPT ![i] = IF loaded THEN "loaded" ELSE "exited1"]
    /\ UNCHANGED <<isBuilding, events>>
    /\ UNCHANGED otherThanWatch

\* pipeline.js 245-247: createLock(), the watcher always passes -l
ChildCreatesLock(i) ==
    /\ i \in 1..Len(builds)
    /\ builds[i] = "loaded"
    /\ lock' = TRUE
    /\ builds' = [builds EXCEPT ![i] = "building"]
    /\ UNCHANGED <<isBuilding, events>>
    /\ UNCHANGED otherThanWatch

\* pipeline.js 66-71 and 309: exitPipeline() removes the lock and exits
\* with code 0, process.exit(1) leaves it
ChildExits(i) ==
    /\ i \in 1..Len(builds)
    /\ builds[i] = "building"
    /\ \E code \in {0, 1} :
         /\ lock' = IF code = 0 THEN FALSE ELSE lock
         /\ builds' = [builds EXCEPT ![i] = IF code = 0 THEN "exited0" ELSE "exited1"]
    /\ UNCHANGED <<isBuilding, events>>
    /\ UNCHANGED otherThanWatch

\* lines 324-332: the 'close' event of the pipeline process
PipelineClose(i) ==
    /\ i \in 1..Len(builds)
    /\ builds[i] \in {"exited0", "exited1"}
    /\ isBuilding' = FALSE
    /\ builds' = [builds EXCEPT ![i] = IF builds[i] = "exited0" THEN "closed0"
                                       ELSE "closed1"]
    /\ UNCHANGED <<lock, events>>
    /\ UNCHANGED otherThanWatch

\* "node server" has been started; a lock file may have been left behind,
\* and a pipeline may be started by hand in another terminal
InitWatch ==
    /\ PipelineAtRest
    /\ lock \in BOOLEAN
    /\ other \in {"none", "idle"}
    /\ InitSite

NextWatch ==
    \/ FileChange
    \/ \E i \in 1..Len(builds) : ChildLoads(i)
    \/ \E i \in 1..Len(builds) : ChildCreatesLock(i)
    \/ \E i \in 1..Len(builds) : ChildExits(i)
    \/ \E i \in 1..Len(builds) : PipelineClose(i)
    \/ OtherLoad
    \/ OtherCreateLock
    \/ OtherExit

SpecWatch == InitWatch /\ [][NextWatch]_vars

-----------------------------------------------------------------------------
(* Properties of one invocation *)

Calls(name) == {i \in 1..Len(trace) : trace[i].call = name}
Failed(step) == \E i \in 1..Len(trace) : trace[i] = Call("failed", step)
Made(name, path) == \E i \in 1..Len(trace) : trace[i] = Call(name, path)

\* sftp.connect calls, those that failed included
ConnectCalls == Calls("connect") \cup {i \in 1..Len(trace) : trace[i] = Call("failed", "connect")}

RemoteOps == {"release", "rollback", "delete"}

\* the operation entered has returned to main or thrown into it
OperationLeft == currentOp \in RemoteOps /\ pc \in {"post", "returned", "threw", "exited"}

\* C2: every remote operation (release, backup-then-release, rollback,
\* delete) calls sftp.connect exactly once, and when the operation has been
\* left, by return or by an error, sftp.end has been called on that
\* connection: no connection is open and none was opened twice.
C2_OneConnectionAlwaysEnded ==
    /\ Cardinality(ConnectCalls) <= 1
    /\ conn = "open" => currentOp \in RemoteOps /\ ~OperationLeft
    /\ OperationLeft =>
         /\ Cardinality(ConnectCalls) = 1
         /\ Cardinality(Calls("end")) = 1
         /\ conn = "ended"

\* a delete whose connection attempt failed: the catch block threw, and the
\* operation was left with the error
C2_Witness ==
    /\ currentOp = "delete"
    /\ Failed("connect")
    /\ pc = "threw"
    /\ conn = "ended"

\* main has gone on after the operation returned
Returned == pc \in {"post", "returned", "exited"}

\* C3: a rollback run while no <applicationPath>_BACKUP exists on the remote
\* leaves the primary remote directory as it was and does not report the
\* rollback as completed.
C3_RollbackWithoutBackupFails ==
    (currentOp = "rollback" /\ Returned /\ ~initial.remote[backupPath].exists) =>
        /\ remote[applicationPath] = initial.remote[applicationPath]
        /\ "Rollback complete." \notin log

Before(i, name, path) == \E j \in 1..(i - 1) : trace[j] = Call(name, path)

BackupRelease ==
    currentOp = "release" /\ backupFlag /\ initial.remote[applicationPath].exists

CopySteps == {"bk_check", "bk_mkdir", "cp_check", "cp_download", "cp_upload"}

C5_RollbackRestoresSnapshot ==
    (currentOp = "rollback" /\ Returned /\ Made("uploadDir", applicationPath)) =>
        remote[applicationPath].files = remote[backupPath].files

\* C6 as stated: at most one terminal operation per run, rollback before
\* delete before release / local build for every combination of flags.
C6_RollbackAlwaysFirst ==
    /\ Len(opsRun) <= 1
    /\ Len(opsRun) = 1 =>
         opsRun[1] = (IF rollbackFlag THEN "rollback"
                      ELSE IF deleteFlag
                           THEN (IF localFlag THEN "clear dist" ELSE "delete")
                           ELSE (IF localFlag THEN "build" ELSE "release"))

\* C6 (amended): a run enters at most one terminal operation and none after
\* it; without -l rollback takes precedence over delete and delete over
\* release; with -l the rollback flag is ignored, the server is not
\* touched, and clearing the dist directory (-d) takes precedence over the
\* local build.
C6_OneOperationByPrecedence ==
    /\ Len(opsRun) <= 1
    /\ Len(opsRun) = 1 =>
         opsRun[1] = (IF localFlag
                      THEN (IF deleteFlag THEN "clear dist" ELSE "build")
                      ELSE IF rollbackFlag THEN "rollback"
                      ELSE IF deleteFlag THEN "delete" ELSE "release")
    /\ (pc = "exited" /\ Len(opsRun) = 1 /\ localFlag) => trace = <<>>

\* -rollback, -d and -p together: the rollback ran, and nothing else
C6_Witness ==
    /\ rollbackFlag /\ deleteFlag /\ productionFlag
    /\ opsRun = <<"rollback">>
    /\ pc = "exited"

\* C8: on every termination path of an invocation that created
\* pipeline.lock the lock file is absent after the process has ended.
C8_NoLockAfterExit == pc = "exited" => ~lock

FilesAsBefore ==
    /\ configVersion = initial.configVersion
    /\ swVersion = initial.swVersion
    /\ configSw = initial.configSw
    /\ cacheList = initial.cacheList

\* C10: when the target after -v does not match ^\d+(\.\d+){0,3}$ the run is
\* rejected and config.js, service-worker.js, the files of the project root
\* and the cache list are as before the invocation.
C10_RejectedTargetMutatesNothing ==
    "throw: Invalid version number format" \in log => FilesAsBefore

\* updateVersion has completed in this run
VersionWritten == version # <<>>

-----------------------------------------------------------------------------
(* Properties of the upload order *)

LastNames == {"service-worker.js", "config-sw.js", "config.js"}
IsLast(file) == basename(file) \in LastNames

\* the remote holds, at the place of file, what this release uploads there
Uploaded(file) ==
    \E g \in Range(filesToUpload) :
        /\ relativeFilePath(g) = relativeFilePath(file)
        /\ File(relativeFilePath(file), prepareFile(g)) \in remote[applicationPath].files

Batch == Range(filesToUpload)

\* C1: in every release upload the files named service-worker.js,
\* config-sw.js and config.js are put after every other file of the batch
\* (the list filesToUpload), whatever the order of the list before the sort;
\* and whenever the new service-worker.js is on the remote, every other file
\* of the batch has been put and is on the remote, also when the upload
\* aborted.
C1_ServiceWorkerAndConfigLast ==
    currentOp = "release" =>
        /\ \A i \in Calls("fastPut") :
             IsLast(trace[i].path) =>
                \A f \in Batch : ~IsLast(f) => Before(i, "fastPut", f)
        /\ \A i \in Calls("fastPut") :
             (trace[i].path \in Batch /\ ~IsLast(trace[i].path)) =>
                \A j \in 1..(i - 1) : ~(trace[j].call = "fastPut" /\ IsLast(trace[j].path))
        /\ Uploaded("service-worker.js") =>
             \A f \in Batch : Made("fastPut", f) /\ Uploaded(f)

\* both config.js of the directories were ahead of other files in the list,
\* service-worker.js was put, and the upload aborted at the .htaccess file
C1_Witness ==
    /\ currentOp = "release"
    /\ "src/config.js" \in dirFiles
    /\ dbFiles = <<"database/config.js", "database/setup.php">>
    /\ Uploaded("service-worker.js")
    /\ Failed("up_files")
    /\ pc = "exited"

-----------------------------------------------------------------------------
(* Properties of the version step *)

\* C9: for every current version of one to four numeric components, -v
\* without a target gives the version padded with zeros to four components
\* and its 4th component incremented by one, the others unchanged.
C9_BumpPadsAndIncrementsFourth ==
    (/\ pc = "manifest"
     /\ versionFlag /\ NoTarget(vArg)
     /\ MatchesVersionPattern(initial.configVersion)) =>
        StripMarkers(version) =
            [PadTo4(initial.configVersion) EXCEPT ![4] = Num(@.d + 1)]

\* the marker the flags of the run ask for
ExpectedMarker == IF forcedUpdateFlag THEN "-f" ELSE IF silentUpdateFlag THEN "-s" ELSE ""

\* C11: the version a run writes is a four-component numeric version
\* followed by "-f" with -forced, by "-s" with -silent and without -forced,
\* and by nothing otherwise, whatever marker config.js carried before.
C11_FourComponentsAndOneMarker ==
    pc = "manifest" =>
        /\ Len(configVersion) = 4
        /\ MatchesVersionPattern(Marked(configVersion, ""))
        /\ configVersion[4].r = ExpectedMarker

\* the part of C11 about the marker alone: whatever the version, the marker
\* written is the one the flags ask for, once
C11_MarkerNeverKept ==
    pc = "manifest" =>
        /\ configVersion = [StripMarkers(configVersion) EXCEPT
                               ![Len(configVersion)].r = @ \o ExpectedMarker]
        /\ \A i \in 1..Len(configVersion) :
             StripMarkers(configVersion)[i].r \in {"", "NaN"}

-----------------------------------------------------------------------------
(* Properties of the lock file *)

\* this invocation holds the lock it created and has not ended
InBuildPhase ==
    /\ productionFlag \/ stagingFlag \/ localFlag
    /\ pc \notin {"start", "main", "modes", "exited"}

\* C7: while one invocation that created pipeline.lock is in its build /
\* release phase, no second invocation is in its build / release phase and
\* the lock file stays in place.
C7_LockExcludesSecondInvocation ==
    InBuildPhase => (other # "building" /\ lock)

\* the manifest the manifest step has just built
BuiltNow == pc = "op" /\ Len(manifests) > 0

\* C13: the manifest returned by getFilesToCache is sorted in the order of
\* the strings' code units and holds no path twice, whatever the directories
\* hold and however directoriesToInclude overlaps or repeats directories.
C13_ManifestSortedNoDuplicates ==
    \A m \in 1..Len(manifests) :
        \A i, j \in 1..Len(manifests[m]) :
            i < j => LexRank(manifests[m][i]) < LexRank(manifests[m][j])

\* a directory named twice and one read again below another, with files in both
C13_Witness ==
    /\ BuiltNow
    /\ directoriesToInclude \in {<<"src", "src">>, <<"src", "src/components">>}
    /\ {"src/a.js", "src/components/example.js"} \subseteq Range(manifests[1])

Walked(f) ==
    {dirname(f), dirname(dirname(f))} \cap Range(includedDirectories(directoriesToInclude)) # {}

\* the file, or the directory it is in, has a name that starts with a dot
Hidden(f) == startsWithDot(f) \/ startsWithDot(dirname(f))

IgnoredType(f) == extname(f) \in ignoredFileTypes

\* C15 as stated: no file of the manifest has an ignored extension or a name
\* (or directory) starting with a dot, and every other file found by the
\* walk of the configured directories is in the manifest.
C15_NoIgnoredTypeInManifest ==
    \A m \in 1..Len(manifests) :
        /\ \A f \in Range(manifests[m]) : ~IgnoredType(f) /\ ~Hidden(f)
        /\ \A f \in dirFiles :
             Walked(f) /\ ~IgnoredType(f) /\ ~Hidden(f) => f \in Range(manifests[m])

\* C15, amended: the files the walk adds to the manifest are exactly the
\* files below the configured directories that have no ignored extension
\* and are not hidden by a name starting with a dot; the files of the
\* literal list are in the manifest whatever their extension.
C15_WalkFiltersTypesAndDotNames ==
    \A m \in 1..Len(manifests) :
        Range(manifests[m]) =
            Range(FixedFiles) \cup
            {f \in dirFiles : Walked(f) /\ ~IgnoredType(f) /\ ~Hidden(f)}

\* src holds a.js, b.md, c.css and hidden entries; .md is ignored
C15_Witness ==
    /\ BuiltNow
    /\ ".md" \in ignoredFileTypes
    /\ "src" \in Range(directoriesToInclude)
    /\ {f \in dirFiles : dirname(f) = "src"} =
           {"src/a.js", "src/b.md", "src/c.css", "src/.env.js"}
    /\ "src/.git/hook.js" \in dirFiles
    /\ {f \in Range(manifests[1]) : Walked(f)} = {"src/a.js", "src/c.css"}

\* the file lies inside the directory
Inside(f, dir) == dir \in {dirname(f), dirname(dirname(f))}

\* the files of the list outside every directory of directoriesToExcludeFromCache
OutsideExcluded(list) ==
    SelectSeq(list, LAMBDA f :
        \A k \in 1..Len(directoriesToExcludeFromCache) :
            ~Inside(f, directoriesToExcludeFromCache[k]))

\* C16: the cache list written to filesToCache.js (with -c) is the manifest
\* without the files inside a directory of directoriesToExcludeFromCache: no
\* entry lies inside an excluded directory and every manifest file outside
\* of them is listed.
C16_CacheListIsManifestOutsideExcluded ==
    BuiltNow /\ cacheFlag =>
        cacheList = [k \in 1..Len(OutsideExcluded(manifests[Len(manifests)])) |->
                        "/" \o OutsideExcluded(manifests[Len(manifests)])[k]]

\* lines 337-343 ended by the error of a manifest file that is not on disk
ManifestAborted ==
    log \cap {"throw: ENOENT: no such file or directory",
              "throw: One or more files are missing"} # {}

\* the process has ended without an error message
EndedWell ==
    /\ pc = "exited"
    /\ log \cap {"Error loading config",
                 "Error: Missing necessary configuration values",
                 "throw: ENOENT: no such file or directory",
                 "throw: One or more files are missing",
                 "throw: TypeError: Cannot read properties of undefined",
                 "throw: Invalid version number format"} = {}

\* C17: the process ends with exit code 0 on success and on help, and with
\* exit code 1 when configuration is missing and when a file of the manifest
\* does not exist on disk.
C17_ExitCodes ==
    pc = "exited" =>
        /\ EndedWell => exitCode = 0
        /\ "Error: Missing necessary configuration values" \in log => exitCode = 1
        /\ ManifestAborted => exitCode = 1

\* C18: when a file of the manifest is not on disk, the run ends before any
\* network I/O: no SFTP call is made, no connection is opened and the remote
\* directories stay as they were, whichever of release, backup, delete and
\* rollback the flags ask for.
C18_MissingFileNoNetwork ==
    (\E f \in Range(FixedFiles) : f \notin dirFiles) =>
        /\ trace = <<>>
        /\ conn = "none"
        /\ opsRun = <<>>
        /\ remote = initial.remote

\* a rollback on production was asked for while sitemap.xml is missing: the
\* run has ended at the manifest step
C18_Witness ==
    /\ rollbackFlag /\ productionFlag /\ ~localFlag
    /\ "sitemap.xml" \notin dirFiles
    /\ ManifestAborted
    /\ pc = "exited"
    /\ remote[applicationPath].exists

\* a remote call of the running operation has failed into its catch block
CaughtInOperation(op) == currentOp = op /\ ("Error in " \o op) \in log

\* C19: a remote error in release, rollback or delete is caught inside the
\* operation and does not propagate to main: main never sees the error, a
\* failed release returns 0 uploaded files, and the run does not end before
\* the statistics step was executed.
C19_RemoteErrorCaughtInOperation ==
    \A op \in RemoteOps :
        CaughtInOperation(op) =>
            /\ pc # "threw"
            /\ (op = "release" /\ Returned) => filesUploaded = 0
            /\ pc = "exited" => statsWritten

\* the flags ask for a build or a release
BuildRun == NoModeFlag /\ ~initializeFlag /\ (productionFlag \/ stagingFlag \/ localFlag)

\* C20: with a required configuration key missing, every build or release
\* run ends at the check of lines 292-310 with the list of missing names and
\* exit code 1: the version is not changed, no manifest is computed and no
\* connection is opened.
C20_MissingKeyAbortsBuild ==
    (missingKeys # {} /\ BuildRun /\ pc \notin {"main", "modes"}) =>
        /\ pc = "exited"
        /\ exitCode = 1
        /\ "Error: Missing necessary configuration values" \in log
        /\ FilesAsBefore
        /\ manifests = <<>>
        /\ trace = <<>>

\* the run was given the rollback flag f, -p or -s and nothing else, with a
\* configuration that loads and is complete and every file of the manifest
\* on disk, and it has ended
RollbackRun(f) ==
    /\ f \in argv
    /\ productionFlag \/ stagingFlag
    /\ argv \subseteq {f, "-p", "-s"}
    /\ missingKeys = {}
    /\ Range(FixedFiles) \subseteq dirFiles
    /\ "Error loading config" \notin log
    /\ pc = "exited"

\* C21: a run with -r (as one with -rollback) together with -p or -s
\* performs the rollback operation on the selected path.
C21_ShortFlagRollsBack ==
    \A f \in {"-r", "-rollback"} :
        RollbackRun(f) => opsRun = <<"rollback">>

\* C22: the post release scripts are executed only in a run that released
\* to production or staging and whose upload succeeded: never after a failed
\* upload, in a delete run, in a rollback run, or in a run that uploaded
\* nothing to the server.
C22_PostScriptsOnlyAfterUpload ==
    "post" \in scripts =>
        /\ currentOp = "release"
        /\ ~deleteFlag /\ ~rollbackFlag
        /\ ~Failed("connect") /\ ~Failed("up_mkdirs") /\ ~Failed("up_files")
        /\ filesUploaded > 0
        /\ Calls("fastPut") # {}

\* C23: in a run with -l no SFTP connection is opened and nothing on the
\* server is created, changed or deleted, whatever other flags are given.
C23_LocalRunLeavesServerAlone ==
    localFlag =>
        /\ trace = <<>>
        /\ conn = "none"
        /\ remote = initial.remote
        /\ \A i \in 1..Len(opsRun) : opsRun[i] \in {"build", "clear dist"}

\* -l with -rollback and -p: the run built into dist and has ended, with
\* a production directory on the server that it did not touch
C23_Witness ==
    /\ localFlag /\ rollbackFlag /\ productionFlag
    /\ opsRun = <<"build">>
    /\ pc = "exited"
    /\ remote[applicationPath].exists

\* the update kept every value of the file and filled in the defaults
KeptAndFilled(defaults, u) ==
    u.before.exists =>
        /\ DOMAIN u.after.obj = DOMAIN u.before.obj \cup DOMAIN defaults
        /\ \A k \in DOMAIN u.after.obj :
             u.after.obj[k] = IF k \in DOMAIN u.before.obj THEN u.before.obj[k]
                              ELSE defaults[k]

\* C24: updateConfig and updatePipelineConfig on an existing file write the
\* existing value of every key of the file and the default of every default
\* key the file lacks, and a second update leaves the record as it is.
C24_UpdateKeepsExistingValues ==
    /\ \A i \in 1..Len(updates) :
         /\ KeptAndFilled(defaultConfig, updates[i].config)
         /\ KeptAndFilled(defaultPipelineConfig, updates[i].pipeline)
    /\ Len(updates) = 2 =>
         /\ updates[2].config.after.obj = updates[1].config.after.obj
         /\ updates[2].pipeline.after.obj = updates[1].pipeline.after.obj

\* C25: the list handed to uploadFilesToDirectory names every local file at
\* most once, Birdhouse/filesToCache.js and the files of the database
\* directory included: no file is uploaded twice in one batch.
C25_NoFileUploadedTwice ==
    \A i, j \in 1..Len(filesToUpload) :
        i < j => relativeFilePath(filesToUpload[i]) # relativeFilePath(filesToUpload[j])

\* C26: in a release with -m the content put to the remote path of a file
\* of the manifest comes from that same file (minified for .js and .css),
\* also when files in different directories have the same basename.
C26_UploadedContentIsOwnFile ==
    (currentOp = "release" /\ minifyFlag) =>
        \A i \in Calls("fastPut") :
            trace[i].path \in Range(filesToCache) =>
                contentSource(trace[i].path) = relativeFilePath(trace[i].path)

-----------------------------------------------------------------------------
(* Properties of the router *)

\* a call of handleRouteChange is made in this step
CallMade == Len(calls') = Len(calls) + 1

OupsHookBreaks == oupsConditionThrows(triggerHook(oupsHook))

\* C28: every execution of handleRouteChange sets isHandlingRouteChange back
\* to false in the end, also when a callback is registered for
\* 'overwrite-oups-content' or when a callback or a component throws, so
\* that no later route change is ignored for good.
C28_FlagResetInTheEnd == isHandlingRouteChange ~> ~isHandlingRouteChange

\* the same for the pages on which line 621 does not throw
C28_FlagResetWithoutOupsHook ==
    (isHandlingRouteChange /\ ~OupsHookBreaks) ~> ~isHandlingRouteChange

\* an execution has ended and left the flag set
C28_FlagLeftSet ==
    /\ isHandlingRouteChange
    /\ InProgress = {}
    /\ \E i \in 1..Len(calls) : calls[i].at = "threw"
    /\ \E i \in 1..Len(calls) : calls[i].at = "ignored" /\ ~calls[i].busy

-----------------------------------------------------------------------------
(* Properties of the user data fetch *)

\* C29: retryDelay is always between 1000 and 3600000; after k failed
\* fetches in a row the retry was scheduled after min(1000 * 2^k, 3600000)
\* ms; after a successful fetch the delay is 1000 again; and at most one
\* fetch of user data is in flight.
C29_CappedDoublingRetry ==
    /\ retryDelay >= 1000
    /\ retryDelay <= 3600000
    /\ fails > 0 => /\ lastDelay = Min(1000 * 2^fails, 3600000)
                    /\ retryDelay = lastDelay
    /\ fails = 0 => retryDelay = 1000
    /\ fetching <= 1
    /\ fetchingUserData <=> fetching = 1

\* the delay has reached the cap and stays there, while an execution waits
\* for the fetch in flight
C29_Witness ==
    /\ fails = 13
    /\ lastDelay = 3600000
    /\ fetching = 1
    /\ waiting = 1

-----------------------------------------------------------------------------
(* Properties of the development watcher *)

\* C30: the watcher never has two pipeline processes alive at once; an
\* event that arrives while one is alive or while pipeline.lock exists
\* starts none; and when the running process has closed, with whatever exit
\* code, isBuilding is false again.
C30_OneBuildAtATime ==
    /\ Cardinality(Alive) <= 1
    /\ \A e \in 1..Len(events) :
         (events[e].lock \/ events[e].running) => ~events[e].started
    /\ (\A i \in 1..Len(builds) : builds[i] \in {"closed0", "closed1"}) => ~isBuilding

\* an event was ignored during a build, that build failed and closed, the
\* flag was cleared and a later event started the next build
C30_Witness ==
    /\ Len(builds) = 2
    /\ builds[1] = "closed1"
    /\ builds[2] = "spawned"
    /\ \E e \in 1..Len(events) : events[e].running /\ ~events[e].lock /\ ~events[e].started

====
